---- MODULE Spec2Model ----
(***************************************************************************)
(* pymm: conversion between xml.etree elements and pymm elements.         *)
(*                                                                         *)
(* The module models src/pymm/Factories.py (the factories pymm.py uses):  *)
(*   - the attribute coercion of BaseElementFactory (decode_attribs,      *)
(*     encode_attribs, decode_attrib_value_using_spec_entries),           *)
(*   - the choice among typeVariants (compute_element_type),              *)
(*   - the two-pass, queue-driven whole-tree conversion of                *)
(*     MindMapConverter.                                                  *)
(* Python values are records [t, s, n, x]: t is the Python type, s the    *)
(* text of a str/bytes, n the number of a bool/int/float (floats in       *)
(* tenths), x the elements a text spells when it is markup.               *)
(***************************************************************************)
EXTENDS Integers, Sequences, FiniteSets, TLC

(***************************************************************************)
(* Python values                                                           *)
(***************************************************************************)
Str(s)   == [t |-> "str",   s |-> s,  n |-> 0, x |-> <<>>]
Bytes(s) == [t |-> "bytes", s |-> s,  n |-> 0, x |-> <<>>]
Bool(b)  == [t |-> "bool",  s |-> "", n |-> IF b THEN 1 ELSE 0, x |-> <<>>]
IntV(i)  == [t |-> "int",   s |-> "", n |-> i, x |-> <<>>]
Float(d) == [t |-> "float", s |-> "", n |-> d, x |-> <<>>]
None     == [t |-> "none",  s |-> "", n |-> 0, x |-> <<>>]
\* a text that is markup: the serialized elements x, one after the other
Markup(x) == [t |-> "str",  s |-> "", n |-> 0, x |-> x]

PyTrue  == Bool(TRUE)
PyFalse == Bool(FALSE)

\* Python ==  (bool is an int; a number equals a number of the same value;
\* str, bytes and None equal only their own kind)
PyNumber(v) == v.t \in {"bool", "int", "float"}
PyScaled(v) == IF v.t = "float" THEN v.n ELSE 10 * v.n
PyEq(a, b) ==
    IF PyNumber(a) /\ PyNumber(b) THEN PyScaled(a) = PyScaled(b)
    ELSE a.t = b.t /\ a.s = b.s /\ a.x = b.x

\* the text int() and float() accept, on the strings the model draws from
IntLiteral   == ("0" :> 0) @@ ("7" :> 7) @@ (" 7" :> 7) @@ ("12" :> 12)
FloatLiteral == ("0" :> 0) @@ ("7" :> 70) @@ (" 7" :> 70) @@ ("12" :> 120)
                @@ ("1.5" :> 15)
\* the text str() gives for a number
IntRepr   == (0 :> "0") @@ (1 :> "1") @@ (7 :> "7") @@ (12 :> "12")
FloatRepr == (0 :> "0.0") @@ (10 :> "1.0") @@ (15 :> "1.5") @@ (70 :> "7.0")
             @@ (120 :> "12.0")

\* str(value)
PyStr(v) ==
    CASE v.t = "str"   -> v.s
      [] v.t = "bytes" -> IF v.s = "false" THEN "b'false'" ELSE "b'...'"
      [] v.t = "bool"  -> IF v.n = 1 THEN "True" ELSE "False"
      [] v.t = "int"   -> IntRepr[v.n]
      [] v.t = "float" -> FloatRepr[v.n]
      [] OTHER         -> "None"

\* str(value) as a value: a text is its own str()
PyStrV(v) == IF v.t = "str" THEN v ELSE Str(PyStr(v))

\* str.lower() on the strings the model draws from
PyLower(s) ==
    CASE s \in {"False", "FALSE"} -> "false"
      [] s \in {"True", "TRUE"}   -> "true"
      [] OTHER                    -> s

\* the outcome of an expression: a value, or an exception raised
Ret(v)    == [err |-> "", val |-> v]
Raise(e)  == [err |-> e,  val |-> None]

\* bool(value), int(value), float(value), str(value)
PyBool(v) ==
    CASE v.t \in {"str", "bytes"} -> Ret(Bool(v.s # ""))
      [] PyNumber(v)              -> Ret(Bool(v.n # 0))
      [] OTHER                    -> Ret(PyFalse)
PyInt(v) ==
    CASE v.t \in {"str", "bytes"} ->
            IF v.s \in DOMAIN IntLiteral THEN Ret(IntV(IntLiteral[v.s]))
            ELSE Raise("ValueError")
      [] v.t \in {"bool", "int"}  -> Ret(IntV(v.n))
      [] v.t = "float"            -> Ret(IntV(v.n \div 10))
      [] OTHER                    -> Raise("TypeError")
PyFloat(v) ==
    CASE v.t \in {"str", "bytes"} ->
            IF v.s \in DOMAIN FloatLiteral THEN Ret(Float(FloatLiteral[v.s]))
            ELSE Raise("ValueError")
      [] v.t \in {"bool", "int"}  -> Ret(Float(10 * v.n))
      [] v.t = "float"            -> Ret(v)
      [] OTHER                    -> Raise("TypeError")
PyConstruct(ty, v) ==
    CASE ty = "bool"  -> PyBool(v)
      [] ty = "int"   -> PyInt(v)
      [] ty = "float" -> PyFloat(v)
      [] OTHER        -> Ret(PyStrV(v))

(***************************************************************************)
(* Attribute specs: spec[key] is a list of entries, each a type            *)
(* (bool, int, float, str), a callable, or a literal string.               *)
(***************************************************************************)
TypeTag(ty)    == [k |-> "type", ty |-> ty, s |-> ""]
CustomFn(f)    == [k |-> "fn",   ty |-> "", s |-> f]
ExactString(s) == [k |-> "lit",  ty |-> "", s |-> s]

\* spec[key] as written in an element class: a list of entries, or (by
\* mistake) a bare entry that is not wrapped in a list
EntryList(items) == [list |-> TRUE,  items |-> items]
NonList          == [list |-> FALSE, items |-> <<>>]

\* the callables a spec may hold (a lambda or function of the element class):
\* one that rejects every value with a ValueError, and one that strips the
\* blanks around a text (v.strip(): an AttributeError when v is no text)
ApplyFn(f, v) ==
    CASE f = "reject"  -> Raise("ValueError")
      [] v.t # "str"   -> Raise("AttributeError")
      [] v.s = " 7"    -> Ret(Str("7"))
      [] OTHER         -> Ret(v)

\* a call of warnings.warn
Warning(cat, what, key, text) ==
    [cat |-> cat, what |-> what, key |-> key, text |-> text, tags |-> {}]

\* an outcome that also carries the warnings issued on the way
Out(err, val, warns) == [err |-> err, val |-> val, warns |-> warns]

\* the mutant: only the lower-case spelling is taken for false
false_strings_lower == { Str("false"), Bytes("false") }

false_strings ==
    { Str("false"), Str("False"), Str("FALSE"),
      Bytes("false"), Bytes("False"), Bytes("FALSE") }

\* the body of the for loop of decode_attrib_value_using_spec_entries, from
\* entry i on; the loop's else branch runs when no entry breaks out
RECURSIVE scan_entries(_, _, _, _)
scan_entries(key, value, items, i) ==
    IF i > Len(items)
    THEN Out("", PyStrV(value),
             << Warning("UserWarning", "not matched or converted by spec",
                        key, PyStr(value)) >>)
    ELSE LET entry == items[i] IN
         CASE entry.k = "type" ->
                IF entry.ty = "bool" /\ (\E f \in false_strings : PyEq(f, value))
                THEN Out("", PyFalse, <<>>)
                ELSE LET r == PyConstruct(entry.ty, value)
                     IN  Out(r.err, r.val, <<>>)
           [] entry.k = "fn" ->
                LET r == ApplyFn(entry.s, value) IN Out(r.err, r.val, <<>>)
           [] OTHER ->
                IF PyEq(Str(entry.s), value)
                THEN Out("", value, <<>>)
                ELSE scan_entries(key, value, items, i + 1)

decode_attrib_value_using_spec_entries(key, value, entries) ==
    IF ~entries.list
    THEN Out("ValueError", None, <<>>)
    ELSE scan_entries(key, value, entries.items, 1)

(***************************************************************************)
(* Attribute maps are Python dicts: a sequence of [k, v] in insertion      *)
(* order, no key twice.                                                    *)
(***************************************************************************)
Keys(attrib)   == { attrib[i].k : i \in 1..Len(attrib) }
Has(attrib, k) == k \in Keys(attrib)
Get(attrib, k) == attrib[CHOOSE i \in 1..Len(attrib) : attrib[i].k = k].v
Pair(k, v)     == [k |-> k, v |-> v]
\* attrib[k] = v
Put(attrib, k, v) ==
    IF Has(attrib, k)
    THEN [i \in 1..Len(attrib) |->
            IF attrib[i].k = k THEN Pair(k, v) ELSE attrib[i]]
    ELSE Append(attrib, Pair(k, v))
\* del attrib[k]
Del(attrib, k) == SelectSeq(attrib, LAMBDA p : p.k # k)

\* one pass of the for loop of decode_attribs, from item i on. "done" is
\* decoded_attribs so far. The finally clause stores the item also when the
\* try block raises; an exception other than ValueError then leaves the loop.
RECURSIVE decode_attribs_from(_, _, _, _, _, _)
decode_attribs_from(spec, tag, attribs, i, done, warns) ==
    IF i > Len(attribs) THEN Out("", done, warns)
    ELSE
      LET key   == attribs[i].k
          value == attribs[i].v
          invalid == Warning("SyntaxWarning", "not valid spec", key, PyStr(value))
          \* the except ValueError clause: the message is built with
          \* 'Attrib ' + key + '=' + value, which needs value to be a str
          handled ==
              IF value.t = "str"
              THEN decode_attribs_from(spec, tag, attribs, i + 1,
                       Append(done, Pair(key, value)), Append(warns, invalid))
              ELSE Out("TypeError", Append(done, Pair(key, value)), warns)
      IN
      IF key \notin DOMAIN spec /\ DOMAIN spec # {}
      THEN handled
      ELSE IF key \notin DOMAIN spec
      THEN Out("KeyError", Append(done, Pair(key, value)), warns)
      ELSE LET r == decode_attrib_value_using_spec_entries(key, value, spec[key])
           IN  CASE r.err = "" ->
                      decode_attribs_from(spec, tag, attribs, i + 1,
                          Append(done, Pair(key, r.val)), warns \o r.warns)
                 [] r.err = "ValueError" -> handled
                 [] OTHER ->
                      Out(r.err, Append(done, Pair(key, value)), warns)

\* BaseElementFactory.decode_attribs(mmElement, attribs): spec and tag are
\* those of mmElement
decode_attribs(spec, tag, attribs) ==
    decode_attribs_from(spec, tag, attribs, 1, <<>>, <<>>)

\* the for loop of encode_attribs, from item i on
RECURSIVE encode_attribs_from(_, _, _, _, _)
encode_attribs_from(spec, attribs, i, done, warns) ==
    IF i > Len(attribs) THEN Out("", done, warns)
    ELSE
      LET key   == attribs[i].k
          value == attribs[i].v
      IN
      IF key \notin DOMAIN spec
      THEN encode_attribs_from(spec, attribs, i + 1, done, warns)
      ELSE LET r == decode_attrib_value_using_spec_entries(key, value, spec[key])
           IN  IF r.err = ""
               THEN encode_attribs_from(spec, attribs, i + 1,
                        Append(done, Pair(key, PyStrV(r.val))),
                        warns \o r.warns)
               ELSE Out(r.err, done, warns)

\* BaseElementFactory.encode_attribs(mmElement): the None-valued attribs are
\* dropped first
encode_attribs(spec, attribs) ==
    encode_attribs_from(spec,
        SelectSeq(attribs, LAMBDA p : p.v # None), 1, <<>>, <<>>)

(***************************************************************************)
(* typeVariants: (element class, {attribute name: regex}) in the order     *)
(* they are listed. The patterns of the factories are literal texts (a dot *)
(* is written \.), so a pattern is given by the text it spells.            *)
(***************************************************************************)
Regex(text)            == [lit |-> text]
Variant(type, attribs) == [type |-> type, attribs |-> attribs]

\* re.fullmatch(regex, string): the pattern matches the whole string
re_fullmatch(regex, string) == string = regex.lit

\* the inner for loop of compute_element_type with its else branch: TRUE
\* when no (key, regex) of the variant breaks out of the loop
all_attribs_match(attribs, etAttrib) ==
    \A j \in 1..Len(attribs) :
        /\ Has(etAttrib, attribs[j].k)
        /\ re_fullmatch(attribs[j].v, Get(etAttrib, attribs[j].k).s)

\* otherChoices after the outer for loop has run over typeVariants[1..n]
RECURSIVE otherChoices(_, _, _)
otherChoices(typeVariants, etAttrib, n) ==
    IF n = 0 THEN <<>>
    ELSE LET rest == otherChoices(typeVariants, etAttrib, n - 1)
         IN  IF all_attribs_match(typeVariants[n].attribs, etAttrib)
             THEN Append(rest, typeVariants[n].type)
             ELSE rest

\* the element class the mutant picks: the first of the choices
compute_element_type_first(element, typeVariants, tag, etAttrib) ==
    LET choices == otherChoices(typeVariants, etAttrib, Len(typeVariants))
    IN  Out("",
            IF choices # <<>> THEN choices[1] ELSE element,
            IF Len(choices) > 1
            THEN << Warning("RuntimeWarning", "2+ possible elements", tag, "") >>
            ELSE <<>>)

\* BaseElementFactory.compute_element_type(etElement) of a factory with the
\* given element and typeVariants
compute_element_type(element, typeVariants, tag, etAttrib) ==
    LET choices == otherChoices(typeVariants, etAttrib, Len(typeVariants))
    IN  Out("",
            IF choices # <<>> THEN choices[Len(choices)] ELSE element,
            IF Len(choices) > 1
            THEN << Warning("RuntimeWarning", "2+ possible elements", tag, "") >>
            ELSE <<>>)

(***************************************************************************)
(* Elements. A tree lives in a heap of elements: heap[id] is an etree      *)
(* element (form "et") or a pymm element (form "mm", of class cls);        *)
(* children holds the ids of the children in order. Id 0 is Python's None. *)
(***************************************************************************)
EtElement(tag, attrib, children, text, tail) ==
    [form |-> "et", cls |-> "", tag |-> tag, attrib |-> attrib,
     children |-> children, text |-> text, tail |-> tail, html |-> None]

\* the tag of ET.Comment(...), which is no string
CommentTag == "<!---->"

\* the tag of each element class
ClassTag(cls) ==
    CASE cls = "Node"  -> "node"
      [] cls = "Map"   -> "map"
      [] cls \in {"RichContent", "NodeText", "NodeNote", "NodeDetails"}
                       -> "richcontent"
      [] cls \in {"Hook", "EmbeddedImage", "MapConfig", "Equation",
                  "AutomaticEdgeColor"} -> "hook"
      [] cls = "Cloud" -> "cloud"
      [] cls = "Edge"  -> "edge"
      [] cls = "Font"  -> "font"
      [] cls = "Icon"  -> "icon"
      [] cls = "ArrowLink"  -> "arrowlink"
      [] cls = "Attribute"  -> "attribute"
      [] cls = "Properties" -> "properties"
      [] cls = "MapStyles"  -> "map_styles"
      [] cls = "StyleNode"  -> "stylenode"
      [] cls = "AttributeLayout"   -> "attribute_layout"
      [] cls = "AttributeRegistry" -> "attribute_registry"
      [] cls = "Skip"  -> "skip"
      [] cls = "Prune" -> "prune"
      [] OTHER         -> cls

\* the spec of each element class
ClassSpec(cls) ==
    CASE cls = "Node" ->
            ("TEXT" :> EntryList(<< TypeTag("str") >>))
               @@ ("FOLDED" :> EntryList(<< TypeTag("bool") >>))
               @@ ("CREATED" :> EntryList(<< TypeTag("int") >>))
      [] cls = "Map" -> ("version" :> EntryList(<< TypeTag("str") >>))
      [] cls \in {"RichContent", "NodeText", "NodeNote", "NodeDetails"} ->
            ("TYPE" :> EntryList(<< ExactString("NODE"), ExactString("NOTE"),
                                    ExactString("DETAILS") >>))
      [] cls \in {"Hook", "EmbeddedImage", "MapConfig", "Equation",
                  "AutomaticEdgeColor"} ->
            ("NAME" :> EntryList(<< TypeTag("str") >>))
      [] OTHER -> <<>>

IsRichContent(cls) == cls \in {"RichContent", "NodeText", "NodeNote", "NodeDetails"}

\* elemClass(**attrib): a new pymm element of the class
MmElement(cls, attrib, children) ==
    [form |-> "mm", cls |-> cls, tag |-> ClassTag(cls), attrib |-> attrib,
     children |-> children, text |-> Str(""), tail |-> Str(""),
     html |-> IF IsRichContent(cls) THEN Str("") ELSE None]

\* Elements.NodeText()
NewNodeText == MmElement("NodeText", << Pair("TYPE", Str("NODE")) >>, <<>>)

\* RichContent.is_html(): the html text holds markup
is_html(html) == html.t = "str" /\ html.x # <<>>

\* element.findall(tag_regex=tag): the children of the element with the tag
findall(heap, id, tag) ==
    SelectSeq(heap[id].children, LAMBDA c : heap[c].tag = tag)

\* list.remove(e) on the children of an element: the first e goes
RemoveChild(children, e) ==
    LET i == CHOOSE i \in 1..Len(children) : children[i] = e /\
                 \A j \in 1..(i - 1) : children[j] # e
    IN  [j \in 1..(Len(children) - 1) |->
            IF j < i THEN children[j] ELSE children[j + 1]]

(***************************************************************************)
(* ET.tostring and ET.fromstring                                           *)
(***************************************************************************)
\* ET.tostring(element): the element and all below it, as text
RECURSIVE tostring(_, _)
tostring(heap, id) ==
    [tag |-> heap[id].tag, attrib |-> heap[id].attrib,
     text |-> heap[id].text, tail |-> heap[id].tail,
     kids |-> [i \in 1..Len(heap[id].children) |->
                  tostring(heap, heap[id].children[i])]]

\* the elements a serialized element spells, added to the heap
RECURSIVE AllocTree(_, _)
RECURSIVE AllocKids(_, _, _, _)
AllocTree(heap, ser) ==
    LET id == Len(heap) + 1
        h1 == Append(heap, EtElement(ser.tag, ser.attrib, <<>>, ser.text, ser.tail))
        r  == AllocKids(h1, ser.kids, 1, <<>>)
    IN  [heap |-> [r.heap EXCEPT ![id].children = r.ids], root |-> id]
AllocKids(heap, kids, i, ids) ==
    IF i > Len(kids) THEN [heap |-> heap, ids |-> ids]
    ELSE LET a == AllocTree(heap, kids[i])
         IN  AllocKids(a.heap, kids, i + 1, Append(ids, a.root))

\* ET.fromstring(text): the text has to spell exactly one element; what
\* follows the element (its tail) is not part of it
fromstring(heap, text) ==
    CASE text.t # "str" -> [err |-> "TypeError", heap |-> heap, root |-> 0]
      [] text.s # "" \/ Len(text.x) # 1 ->
            [err |-> "ParseError", heap |-> heap, root |-> 0]
      [] OTHER ->
            LET a == AllocTree(heap, [text.x[1] EXCEPT !.tail = None])
            IN  [err |-> "", heap |-> a.heap, root |-> a.root]

(***************************************************************************)
(* copy.deepcopy                                                           *)
(***************************************************************************)
\* the ids of the tree below root, breadth first
RECURSIVE TreeIds(_, _, _)
TreeIds(heap, queue, acc) ==
    IF queue = <<>> THEN acc
    ELSE TreeIds(heap, Tail(queue) \o heap[Head(queue)].children,
                 Append(acc, Head(queue)))

IndexOf(seq, e) == CHOOSE i \in 1..Len(seq) : seq[i] = e

\* the mutant: no copy is made, the conversion works on the caller's tree
deepcopy_alias(heap, root) == [heap |-> heap, root |-> root]

\* copy.deepcopy(element): every element of the tree is allocated anew
deepcopy(heap, root) ==
    LET ids    == TreeIds(heap, << root >>, <<>>)
        new(e) == Len(heap) + IndexOf(ids, e)
        copies == [i \in 1..Len(ids) |->
                     [heap[ids[i]] EXCEPT !.children =
                        [j \in 1..Len(@) |-> new(@[j])]]]
    IN  [heap |-> heap \o copies, root |-> new(root)]

(***************************************************************************)
(* Factories. A factory is named by its class; SkipFactory and             *)
(* PruneFactory are factories a user adds with add_factory: the first      *)
(* returns None from decode_from_etree_element and encode_to_etree_element,*)
(* the second from finish_decode and finish_encode.                        *)
(***************************************************************************)
FactoryClasses ==
    << "BaseElementFactory", "NodeFactory", "MapFactory", "CloudFactory",
       "HookFactory", "MapStylesFactory", "StyleNodeFactory", "FontFactory",
       "IconFactory", "EdgeFactory", "AttributeFactory", "PropertiesFactory",
       "RichContentFactory", "AttributeRegistryFactory" >>
UserFactories == << "SkipFactory", "PruneFactory" >>
DefaultFactory == "defaultFactory"

FactoryNames ==
    { FactoryClasses[i] : i \in 1..Len(FactoryClasses) }
       \cup { UserFactories[i] : i \in 1..Len(UserFactories) }
       \cup { DefaultFactory }

\* factory.element
FactoryElement(ff) ==
    CASE ff = "NodeFactory"        -> "Node"
      [] ff = "MapFactory"         -> "Map"
      [] ff = "CloudFactory"       -> "Cloud"
      [] ff = "HookFactory"        -> "Hook"
      [] ff = "MapStylesFactory"   -> "MapStyles"
      [] ff = "StyleNodeFactory"   -> "StyleNode"
      [] ff = "FontFactory"        -> "Font"
      [] ff = "IconFactory"        -> "Icon"
      [] ff = "EdgeFactory"        -> "Edge"
      [] ff = "AttributeFactory"   -> "Attribute"
      [] ff = "PropertiesFactory"  -> "Properties"
      [] ff = "RichContentFactory" -> "RichContent"
      [] ff = "AttributeRegistryFactory" -> "AttributeRegistry"
      [] ff = "SkipFactory"        -> "Skip"
      [] ff = "PruneFactory"       -> "Prune"
      [] ff = "UserNodeFactory"    -> "Node"
      [] ff = "UserHookFactory"    -> "EmbeddedImage"
      [] OTHER                     -> "BaseElement"

\* factory.typeVariants
typeVariants(ff) ==
    CASE ff = "HookFactory" ->
            << Variant("EmbeddedImage", << Pair("NAME", Regex("ExternalObject")) >>),
               Variant("MapConfig", << Pair("NAME", Regex("MapStyle")) >>),
               Variant("Equation", << Pair("NAME",
                   Regex("plugins/latex/LatexNodeHook.properties")) >>),
               Variant("AutomaticEdgeColor",
                   << Pair("NAME", Regex("AutomaticEdgeColor")) >>) >>
      [] ff = "RichContentFactory" ->
            << Variant("NodeText", << Pair("TYPE", Regex("NODE")) >>),
               Variant("NodeNote", << Pair("TYPE", Regex("NOTE")) >>),
               Variant("NodeDetails", << Pair("TYPE", Regex("DETAILS")) >>) >>
      [] OTHER -> <<>>

\* factory.child_order, as the classes listed
child_order(ff) ==
    IF ff = "NodeFactory"
    THEN << "BaseElement", "ArrowLink", "Cloud", "Edge", "Font", "Hook",
            "Properties", "RichContent", "Icon", "Node", "AttributeLayout",
            "Attribute" >>
    ELSE << "BaseElement", "ArrowLink", "Cloud", "Edge", "Properties",
            "MapStyles", "Icon", "AttributeLayout", "Attribute", "Hook",
            "Font", "StyleNode", "RichContent", "Node" >>

\* factory.reverse_child_order
reverse_child_order(ff) == <<>>

\* self.tag2factory after __init__ and the add_factory calls of the user:
\* a later factory for a tag replaces an earlier one
\* the dictionary of the first-registered-wins registry, for comparison
add_factory_unless_there(t2f, factory) ==
    t2f @@ (ClassTag(FactoryElement(factory)) :> factory)

\* MindMapConverter.add_factory(factory) on the dictionary t2f
add_factory(t2f, factory) ==
    (ClassTag(FactoryElement(factory)) :> factory) @@ t2f

RECURSIVE add_factories(_, _, _)
add_factories(t2f, factories, i) ==
    IF i > Len(factories) THEN t2f
    ELSE add_factories(add_factory(t2f, factories[i]), factories, i + 1)

tag2factory == add_factories(<<>>, FactoryClasses \o UserFactories, 1)

\* MindMapConverter.get_decode_factory_for(element) over the dictionary t2f:
\* an empty tag and the tag of a comment are in no dictionary
get_factory_for(t2f, tag) ==
    IF tag # "" /\ tag \in DOMAIN t2f THEN t2f[tag] ELSE DefaultFactory

get_decode_factory_for(tag) == get_factory_for(tag2factory, tag)

(***************************************************************************)
(* The methods of the factories. A world w is [heap, warns, nfw, cleared]: *)
(* the heap, the warnings issued so far, each factory's noFactoryWarnings  *)
(* and whether the user has emptied the child_order of the factories.      *)
(* A method gives R(err, id, w): the exception it raised (or ""), the id   *)
(* of the element it returned (0 for None) and the world it left.          *)
(***************************************************************************)
World(w, heap, warns, nfw) ==
    [w EXCEPT !.heap = heap, !.warns = warns, !.nfw = nfw]
R(err, id, w) == [err |-> err, id |-> id, w |-> w]

\* "not value" of a text or tail
Falsy(v) == v.t = "none" \/ (v.t = "str" /\ v.s = "" /\ v.x = <<>>)

\* NodeFactory.decode_attribs, the part before super(): the attrib of the
\* etree element itself is changed
swapout(attrib) ==
    IF ~Has(attrib, "TEXT") /\ Has(attrib, "LOCALIZED_TEXT")
    THEN Del(Put(attrib, "TEXT", Get(attrib, "LOCALIZED_TEXT")), "LOCALIZED_TEXT")
    ELSE attrib

\* BaseElementFactory.decode_from_etree_element, with the decode_attribs of
\* the factory
decode_from_etree_element(ff, w, id) ==
    LET et        == w.heap[id]
        t         == compute_element_type(FactoryElement(ff), typeVariants(ff),
                                          et.tag, et.attrib)
        elemClass == t.val
        attrib    == IF ff = "NodeFactory" THEN swapout(et.attrib) ELSE et.attrib
        h1        == [w.heap EXCEPT ![id].attrib = attrib]
        d         == decode_attribs(ClassSpec(elemClass), ClassTag(elemClass), attrib)
        warns     == w.warns \o t.warns \o d.warns
        new       == Len(h1) + 1
        mmElem    == [MmElement(elemClass, d.val, et.children) EXCEPT !.tag = et.tag]
    IN  IF d.err # "" THEN R(d.err, 0, World(w, h1, warns, w.nfw))
        ELSE R("", new,
               World(w, Append(h1, mmElem), warns,
                     IF ClassTag(elemClass) # et.tag
                     THEN [w.nfw EXCEPT ![ff] = @ \cup {et.tag}] ELSE w.nfw))

\* RichContentFactory.decode_from_etree_element after the call of super():
\* r is what super() gave; the children become the html text
richcontent_take_html(r) ==
    IF r.err # "" THEN r
    ELSE LET kids == r.w.heap[r.id].children
             html == Markup([i \in 1..Len(kids) |-> tostring(r.w.heap, kids[i])])
         IN  R("", r.id,
               [r.w EXCEPT !.heap[r.id].html = html,
                           !.heap[r.id].children = <<>>])

\* RichContentFactory.decode_from_etree_element
richcontent_decode_from_etree_element(ff, w, id) ==
    richcontent_take_html(decode_from_etree_element(ff, w, id))

\* MindMapConverter.decode_etree_element
decode_etree_element(w, id) ==
    LET ff == get_decode_factory_for(w.heap[id].tag) IN
    CASE ff = "SkipFactory"        -> R("", 0, w)
      [] ff = "RichContentFactory" -> richcontent_decode_from_etree_element(ff, w, id)
      [] OTHER                     -> decode_from_etree_element(ff, w, id)

\* the children with the tag moved to the end, in their order
MoveToEnd(heap, children, tag) ==
    SelectSeq(children, LAMBDA c : heap[c].tag # tag)
       \o SelectSeq(children, LAMBDA c : heap[c].tag = tag)

RECURSIVE sort_by(_, _, _, _)
sort_by(heap, children, order, i) ==
    IF i > Len(order) THEN children
    ELSE sort_by(heap, MoveToEnd(heap, children, ClassTag(order[i])), order, i + 1)

\* BaseElementFactory.sort_element_children(element): the second loop
\* removes a child and then appends to element.childern, which no element
\* has
sort_element_children(order, reverse_order, heap, id) ==
    LET sorted == sort_by(heap, heap[id].children, order, 1)
        hits   == { i \in 1..Len(reverse_order) :
                      \E j \in 1..Len(sorted) :
                          heap[sorted[j]].tag = ClassTag(reverse_order[i]) }
    IN  IF hits = {}
        THEN [err |-> "", heap |-> [heap EXCEPT ![id].children = sorted]]
        ELSE LET last == CHOOSE i \in hits : \A j \in hits : j <= i
                 e    == Head(SelectSeq(sorted, LAMBDA c :
                             heap[c].tag = ClassTag(reverse_order[last])))
             IN  [err |-> "AttributeError",
                  heap |-> [heap EXCEPT ![id].children = RemoveChild(sorted, e)]]


\* BaseElementFactory.encode_to_etree_element. An etree element passed in
\* for a pymm element is warned about; it has no spec and no children
\* attribute, and its findall takes no tag_regex.
encode_to_etree_element(ff, w, id) ==
    LET mm    == w.heap[id]
        warns == IF mm.form = "et"
                 THEN Append(w.warns, Warning("RuntimeWarning",
                                 "encoding an ET Element", mm.tag, ""))
                 ELSE w.warns
        a     == encode_attribs(ClassSpec(mm.cls), mm.attrib)
        order == IF w.cleared THEN <<>> ELSE child_order(ff)
        so    == sort_element_children(order, reverse_child_order(ff),
                                       w.heap, id)
        new   == Len(so.heap) + 1
        etElem == EtElement(mm.tag, a.val, so.heap[id].children, mm.text, mm.tail)
    IN  CASE mm.form = "et" ->
               R(IF SelectSeq(mm.attrib, LAMBDA q : q.v # None) # <<>>
                    THEN "AttributeError"
                 ELSE IF order # <<>> \/ reverse_child_order(ff) # <<>>
                    THEN "TypeError"
                 ELSE "AttributeError",
                 0, World(w, w.heap, warns, w.nfw))
          [] a.err # "" -> R(a.err, 0, World(w, w.heap, warns \o a.warns, w.nfw))
          [] so.err # "" -> R(so.err, 0, World(w, so.heap, warns \o a.warns, w.nfw))
          [] OTHER ->
               R("", new, World(w, Append(so.heap, etElem), warns \o a.warns, w.nfw))

\* NodeFactory.encode_node_text(mmNode): a TEXT that is markup becomes a
\* NodeText child and leaves the attrib
encode_node_text(heap, id) ==
    LET mmNode == heap[id] IN
    IF ~Has(mmNode.attrib, "TEXT") THEN [err |-> "KeyError", heap |-> heap]
    ELSE LET text  == Get(mmNode.attrib, "TEXT")
             ntext == [NewNodeText EXCEPT !.html = text]
             new   == Len(heap) + 1
         IN  IF ~is_html(text) THEN [err |-> "", heap |-> heap]
             ELSE IF mmNode.form = "et"
             THEN [err |-> "AttributeError", heap |-> heap]
             ELSE [err |-> "",
                   heap |-> [Append(heap, ntext) EXCEPT
                                ![id].children = Append(@, new),
                                ![id].attrib = Del(@, "TEXT")]]

\* NodeFactory.encode_to_etree_element
node_encode_to_etree_element(ff, w, id) ==
    LET t == encode_node_text(w.heap, id) IN
    IF t.err # "" THEN R(t.err, 0, [w EXCEPT !.heap = t.heap])
    ELSE encode_to_etree_element(ff, [w EXCEPT !.heap = t.heap], id)

\* RichContentFactory.encode_to_etree_element after the call of super():
\* r is what super() gave
richcontent_keep_html(html, r) ==
    IF r.err # "" THEN r
    ELSE R("", r.id, [r.w EXCEPT !.heap[r.id].text = html])

\* RichContentFactory.encode_to_etree_element: the html is kept in the text
\* of the etree element until finish_encode
richcontent_encode_to_etree_element(ff, w, id) ==
    IF w.heap[id].form = "et" THEN R("AttributeError", 0, w)
    ELSE richcontent_keep_html(w.heap[id].html,
                               encode_to_etree_element(ff, w, id))

\* MindMapConverter.encode_mm_element
encode_mm_element(w, id) ==
    LET ff == get_decode_factory_for(w.heap[id].tag) IN
    CASE ff = "SkipFactory"        -> R("", 0, w)
      [] ff = "NodeFactory"        -> node_encode_to_etree_element(ff, w, id)
      [] ff = "RichContentFactory" -> richcontent_encode_to_etree_element(ff, w, id)
      [] OTHER                     -> encode_to_etree_element(ff, w, id)

\* the mutant: the node text stays among the children of the node
RECURSIVE decode_node_text_kept(_, _, _)
decode_node_text_kept(heap, id, richElements) ==
    IF richElements = <<>> THEN heap
    ELSE LET richElem == Head(richElements)
         IN  decode_node_text_kept(
                 IF heap[richElem].cls = "NodeText"
                 THEN [heap EXCEPT
                         ![id].attrib = Put(@, "TEXT", heap[richElem].html)]
                 ELSE heap,
                 id, Tail(richElements))

\* a loop that takes every rich content out of the node, for comparison
RECURSIVE decode_node_text_all(_, _, _)
decode_node_text_all(heap, id, richElements) ==
    IF richElements = <<>> THEN heap
    ELSE LET richElem == Head(richElements)
         IN  decode_node_text_all(
                 [heap EXCEPT
                     ![id].attrib = IF heap[richElem].cls = "NodeText"
                                    THEN Put(@, "TEXT", heap[richElem].html)
                                    ELSE @,
                     ![id].children = RemoveChild(@, richElem)],
                 id, Tail(richElements))

\* NodeFactory.decode_node_text(mmNode): the while loop over richElements
RECURSIVE decode_node_text(_, _, _)
decode_node_text(heap, id, richElements) ==
    IF richElements = <<>> THEN heap
    ELSE LET richElem == Head(richElements)
         IN  decode_node_text(
                 IF heap[richElem].cls = "NodeText"
                 THEN [heap EXCEPT
                         ![id].attrib = Put(@, "TEXT", heap[richElem].html),
                         ![id].children = RemoveChild(@, richElem)]
                 ELSE heap,
                 id, Tail(richElements))

\* MindMapConverter.additional_decode: the finish_decode of the factory
additional_decode(w, id) ==
    LET ff == get_decode_factory_for(w.heap[id].tag) IN
    CASE ff = "PruneFactory" -> R("", 0, w)
      [] ff = "NodeFactory"  ->
            R("", id, [w EXCEPT !.heap =
                  decode_node_text(w.heap, id, findall(w.heap, id, "richcontent"))])
      [] OTHER -> R("", id, w)

\* BaseElementFactory.finish_encode: newlines for the layout of the file
finish_encode(heap, id) ==
    LET e  == heap[id]
        t1 == IF Len(e.children) > 0 /\ Falsy(e.text) THEN Str("\n") ELSE e.text
        t2 == IF Falsy(e.tail) THEN Str("\n") ELSE e.tail
    IN  [heap EXCEPT ![id].text = t1, ![id].tail = t2]

\* a map whose comment comes after its children, for comparison
map_finish_encode_last(heap, id) ==
    LET h1      == finish_encode(heap, id)
        comment == EtElement(CommentTag, <<>>, <<>>, Str("To view this file"),
                             Str("\n"))
        new     == Len(h1) + 1
    IN  [Append(h1, comment) EXCEPT ![id].children = @ \o << new >>]

\* MapFactory.finish_encode: the comment becomes the first child
map_finish_encode(heap, id) ==
    LET h1      == finish_encode(heap, id)
        comment == EtElement(CommentTag, <<>>, <<>>, Str("To view this file"),
                             Str("\n"))
        new     == Len(h1) + 1
    IN  [Append(h1, comment) EXCEPT ![id].children = << new >> \o @]

\* RichContentFactory.finish_encode: the text is parsed back into a child
richcontent_finish_encode(w, id) ==
    LET html == w.heap[id].text
        h1   == finish_encode([w.heap EXCEPT ![id].text = Str("\n")], id)
        p    == fromstring(h1, html)
    IN  IF p.err # "" THEN R(p.err, 0, [w EXCEPT !.heap = h1])
        ELSE R("", id,
               [w EXCEPT !.heap = [p.heap EXCEPT ![id].children = Append(@, p.root)]])

\* MindMapConverter.additional_encode: the finish_encode of the factory
additional_encode(w, id) ==
    LET ff == get_decode_factory_for(w.heap[id].tag) IN
    CASE ff = "PruneFactory"       -> R("", 0, w)
      [] ff = "MapFactory"         ->
            R("", id, [w EXCEPT !.heap = map_finish_encode(w.heap, id)])
      [] ff = "RichContentFactory" -> richcontent_finish_encode(w, id)
      [] OTHER -> R("", id, [w EXCEPT !.heap = finish_encode(w.heap, id)])

\* the first-pass and the second-pass function of a conversion
fxn1(dir, w, id) ==
    IF dir = "decode" THEN decode_etree_element(w, id) ELSE encode_mm_element(w, id)
fxn2(dir, w, id) ==
    IF dir = "decode" THEN additional_decode(w, id) ELSE additional_encode(w, id)

(***************************************************************************)
(* The loops of MindMapConverter, on worlds                                *)
(***************************************************************************)
\* one application of the first-pass or second-pass function, as recorded
Applied(node, parent, r) ==
    [node |-> node, parent |-> parent, out |-> r.id, err |-> r.err]

\* the inner while loop of _apply_first_pass_fxn_to_full_tree: the children
\* still unchanged, those built so far, and the applications made
RECURSIVE first_pass_children(_, _, _, _, _, _)
RECURSIVE first_pass_child(_, _, _, _, _, _)
first_pass_children(dir, w, parent, unchanged, children, log) ==
    IF unchanged = <<>>
    THEN [err |-> "", w |-> w, children |-> children, log |-> log]
    ELSE first_pass_child(dir, parent, unchanged, children, log,
                          fxn1(dir, w, Head(unchanged)))

\* the mutant: a child that came back as None stays with its parent
first_pass_child_kept(dir, parent, unchanged, children, log, r) ==
    LET unchangedChild == Head(unchanged)
        log1 == Append(log, Applied(unchangedChild, parent, r))
    IN  IF r.err # ""
        THEN [err |-> r.err, w |-> r.w, children |-> children, log |-> log1]
        ELSE first_pass_children(dir, r.w, parent, Tail(unchanged),
                 Append(children, IF r.id = 0 THEN unchangedChild ELSE r.id),
                 log1)

\* the mutant: a child is put in front of those built before it
first_pass_child_in_front(dir, parent, unchanged, children, log, r) ==
    LET unchangedChild == Head(unchanged)
        log1 == Append(log, Applied(unchangedChild, parent, r))
    IN  IF r.err # ""
        THEN [err |-> r.err, w |-> r.w, children |-> children, log |-> log1]
        ELSE first_pass_children(dir, r.w, parent, Tail(unchanged),
                 IF r.id = 0 THEN children ELSE << r.id >> \o children,
                 log1)

\* one round of that loop: r is what the first-pass function gave for
\* unchangedChild, the head of the list. A child that came back as None is
\* not appended to the children.
first_pass_child(dir, parent, unchanged, children, log, r) ==
    LET unchangedChild == Head(unchanged)
        log1 == Append(log, Applied(unchangedChild, parent, r))
    IN  IF r.err # ""
        THEN [err |-> r.err, w |-> r.w, children |-> children, log |-> log1]
        ELSE first_pass_children(dir, r.w, parent, Tail(unchanged),
                 IF r.id = 0 THEN children ELSE Append(children, r.id),
                 log1)

\* MindMapConverter._remove_child_element(child, parent)
remove_child_element(heap, child, parent) ==
    IF \E i \in 1..Len(heap[parent].children) : heap[parent].children[i] = child
    THEN [err |-> "",
          heap |-> [heap EXCEPT ![parent].children = RemoveChild(@, child)]]
    ELSE [err |-> IF heap[parent].form = "mm" THEN "ValueError" ELSE "TypeError",
          heap |-> heap]

\* BaseElementFactory.display_any_warnings
display_any_warnings(w, ff) ==
    [w EXCEPT !.warns = IF w.nfw[ff] # {}
                        THEN Append(@, [Warning("RuntimeWarning",
                                 "do not have decode factories", "", "")
                                 EXCEPT !.tags = w.nfw[ff]])
                        ELSE @,
              !.nfw[ff] = {}]

(***************************************************************************)
(* State                                                                   *)
(*   op, input, outcome: the call of a factory method under test, its      *)
(*   arguments and what it gave.                                           *)
(*   heap: the elements; caller: the tree the caller holds (its heap as it *)
(*   was handed over, and its root); cleared: the user has emptied the     *)
(*   child_order of the factories.                                         *)
(*   dir, pc, error: the conversion running ("decode" or "encode"), where  *)
(*   it stands, and the exception that ended it.                           *)
(*   first, hasUnchangedChildren, notFullyChanged: the locals of the two   *)
(*   passes. warnings: the calls of warnings.warn. noFactoryWarnings: the  *)
(*   set of that name of each factory.                                     *)
(*   calls1, calls2: the applications of the first-pass and of the         *)
(*   second-pass function so far, in order.                                *)
(***************************************************************************)
VARIABLES op, input, outcome,
          heap, caller, cleared, dir, pc, error,
          first, hasUnchangedChildren, notFullyChanged,
          warnings, noFactoryWarnings, calls1, calls2

callVars == <<op, input, outcome>>
treeVars == <<heap, caller, cleared, dir, pc, error, first,
              hasUnchangedChildren, notFullyChanged, warnings,
              noFactoryWarnings, calls1, calls2>>
vars     == <<op, input, outcome, heap, caller, cleared, dir, pc, error,
              first, hasUnchangedChildren, notFullyChanged, warnings,
              noFactoryWarnings, calls1, calls2>>

\* no conversion is under way
NoTree ==
    /\ heap = <<>>
    /\ caller = [heap |-> <<>>, root |-> 0]
    /\ cleared = FALSE
    /\ dir = "none"
    /\ pc = "idle"
    /\ error = ""
    /\ first = 0
    /\ hasUnchangedChildren = <<>>
    /\ notFullyChanged = <<>>
    /\ warnings = <<>>
    /\ noFactoryWarnings = [ff \in FactoryNames |-> {}]
    /\ calls1 = <<>>
    /\ calls2 = <<>>

\* no factory method is under test
NoCall ==
    /\ op = "none"
    /\ input = <<>>
    /\ outcome = Out("", None, <<>>)

NoOutcome == Out("", None, <<>>)

(***************************************************************************)
(* The conversion of a whole tree                                          *)
(***************************************************************************)
MaxNodes == 4

\* the shapes of a tree of n elements numbered breadth first: parent[j] is
\* the parent of element j
Shapes(n) ==
    { parent \in [2..n -> 1..n] :
         /\ \A j \in 2..n : parent[j] < j
         /\ \A j \in 2..(n - 1) : parent[j] <= parent[j + 1] }

ChildrenOf(parent, n, i) ==
    LET kids == { j \in 2..n : parent[j] = i }
    IN  [k \in 1..Cardinality(kids) |->
            CHOOSE j \in kids : Cardinality({ l \in kids : l < j }) = k - 1]

\* markup: <b>bold</b>
Bold == [tag |-> "b", attrib |-> <<>>, text |-> Str("bold"), tail |-> None,
         kids |-> <<>>]

\* the elements of an etree tree to decode: a map on top, below it nodes,
\* rich content, elements no factory knows and elements of the factories
\* of the user
EtRoots == { EtElement("map", <<>>, <<>>, None, None) }
EtKinds ==
    { EtElement("node", << Pair("LOCALIZED_TEXT", Str("hello")) >>, <<>>, None, None),
      EtElement("richcontent", << Pair("TYPE", Str("NODE")) >>, <<>>, None, None),
      EtElement("customplugin", <<>>, <<>>, None, None),
      EtElement("skip", <<>>, <<>>, None, None),
      EtElement("prune", <<>>, <<>>, None, None) }

\* the elements of a pymm tree to encode
MmRoots == { MmElement("Map", <<>>, <<>>) }
MmKinds ==
    { MmElement("Node", << Pair("TEXT", Markup(<< Bold >>)) >>, <<>>),
      [MmElement("NodeNote", << Pair("TYPE", Str("NOTE")) >>, <<>>)
          EXCEPT !.html = Markup(<< Bold >>)],
      [MmElement("BaseElement", <<>>, <<>>) EXCEPT !.tag = "customplugin"],
      MmElement("Skip", <<>>, <<>>),
      MmElement("Prune", <<>>, <<>>) }

\* the trees of up to max elements with an element of roots on top and
\* elements of kinds below it
TreesUpTo(roots, kinds, max) ==
    UNION { { [i \in 1..n |->
                [(IF i = 1 THEN top ELSE below[i]) EXCEPT
                    !.children = ChildrenOf(parent, n, i)]] :
                top \in roots, below \in [2..n -> kinds], parent \in Shapes(n) } :
            n \in 1..max }

Trees(roots, kinds) == TreesUpTo(roots, kinds, MaxNodes)

\* a converter as __init__ and the add_factory calls of the user leave it,
\* and the tree a conversion is called with: an etree tree to decode or a
\* pymm tree to encode
Converting(etTrees, mmTrees) ==
    /\ NoCall
    /\ dir \in {"decode", "encode"}
    /\ cleared \in IF dir = "encode" THEN BOOLEAN ELSE {FALSE}
    /\ heap \in IF dir = "decode" THEN etTrees ELSE mmTrees
    /\ caller = [heap |-> heap, root |-> 1]
    /\ pc = "idle"
    /\ error = ""
    /\ first = 0
    /\ hasUnchangedChildren = <<>>
    /\ notFullyChanged = <<>>
    /\ warnings = <<>>
    /\ noFactoryWarnings = [ff \in FactoryNames |-> {}]
    /\ calls1 = <<>>
    /\ calls2 = <<>>

Init == Converting(Trees(EtRoots, EtKinds), Trees(MmRoots, MmKinds))

TheWorld ==
    [heap |-> heap, warns |-> warnings, nfw |-> noFactoryWarnings,
     cleared |-> cleared]

\* the world a step leaves
SetWorld(w) ==
    /\ heap' = w.heap
    /\ warnings' = w.warns
    /\ noFactoryWarnings' = w.nfw

\* an exception leaves the conversion
Fail(e) ==
    /\ pc' = "failed"
    /\ error' = e

\* a queue whose front is looked at and left in place, for comparison
pop0_kept(queue) == queue

\* queue.pop(0): the queue it leaves
pop0(queue) == Tail(queue)

\* decode_etree_element_and_tree / encode_mm_element_and_tree up to the first
\* pass's loop: the copy, and the first-pass function on the top element
Call ==
    /\ pc = "idle"
    /\ \E c \in { deepcopy(heap, caller.root) } :
       \E r \in { fxn1(dir, [TheWorld EXCEPT !.heap = c.heap], c.root) } :
           /\ SetWorld(r.w)
           /\ calls1' = Append(calls1, Applied(c.root, 0, r))
           /\ IF r.err # ""
              THEN Fail(r.err) /\ UNCHANGED <<first, hasUnchangedChildren>>
              ELSE /\ first' = r.id
                   /\ hasUnchangedChildren' = << r.id >>
                   /\ pc' = "pass1"
                   /\ UNCHANGED error
    /\ UNCHANGED <<callVars, caller, cleared, dir, notFullyChanged, calls2>>

\* one round of the outer while loop of _apply_first_pass_fxn_to_full_tree.
\* None (the first-pass function dropped the top element) has no children
\* to take: a TypeError.
FirstPass ==
    /\ pc = "pass1"
    /\ hasUnchangedChildren # <<>>
    /\ LET element == Head(hasUnchangedChildren) IN
       IF element = 0
       THEN /\ Fail("TypeError")
            /\ hasUnchangedChildren' = pop0(hasUnchangedChildren)
            /\ UNCHANGED <<heap, warnings, noFactoryWarnings, calls1>>
       ELSE \E l \in { first_pass_children(dir, TheWorld, element,
                           heap[element].children, <<>>, <<>>) } :
                /\ calls1' = calls1 \o l.log
                /\ IF l.err # ""
                   THEN /\ Fail(l.err)
                        /\ SetWorld(l.w)
                        /\ hasUnchangedChildren' = pop0(hasUnchangedChildren)
                   ELSE /\ SetWorld([l.w EXCEPT
                               !.heap[element].children = l.children])
                        /\ hasUnchangedChildren' =
                               pop0(hasUnchangedChildren) \o l.children
                        /\ UNCHANGED <<pc, error>>
    /\ UNCHANGED <<callVars, caller, cleared, dir, first, notFullyChanged, calls2>>

\* a second pass that starts while the first has elements left, for
\* comparison
StartSecondPass_early ==
    /\ pc = "pass1"
    /\ pc' = "pass2"
    /\ notFullyChanged' = << <<first, 0>> >>
    /\ UNCHANGED <<callVars, heap, caller, cleared, dir, error, first,
                   hasUnchangedChildren, warnings, noFactoryWarnings,
                   calls1, calls2>>

\* the first pass returns; the second starts with the top element
StartSecondPass ==
    /\ pc = "pass1"
    /\ hasUnchangedChildren = <<>>
    /\ pc' = "pass2"
    /\ notFullyChanged' = << <<first, 0>> >>
    /\ UNCHANGED <<callVars, heap, caller, cleared, dir, error, first,
                   hasUnchangedChildren, warnings, noFactoryWarnings,
                   calls1, calls2>>

\* one round of the while loop of _apply_second_pass_fxn_to_full_tree
SecondPass ==
    /\ pc = "pass2"
    /\ notFullyChanged # <<>>
    /\ \E r \in { fxn2(dir, TheWorld, Head(notFullyChanged)[1]) } :
       LET element == Head(notFullyChanged)[1]
           parent  == Head(notFullyChanged)[2]
           elem    == r.id
       IN  /\ calls2' = Append(calls2, Applied(element, parent, r))
           /\ notFullyChanged' =
                 IF r.err = "" /\ elem # 0
                 THEN pop0(notFullyChanged) \o
                         [i \in 1..Len(r.w.heap[elem].children) |->
                             <<r.w.heap[elem].children[i], elem>>]
                 ELSE pop0(notFullyChanged)
           /\ IF r.err # ""
              THEN Fail(r.err) /\ SetWorld(r.w)
              ELSE IF elem = 0 /\ parent # 0
              THEN \E rm \in { remove_child_element(r.w.heap, elem, parent) } :
                   /\ SetWorld([r.w EXCEPT !.heap = rm.heap])
                   /\ IF rm.err # "" THEN Fail(rm.err)
                      ELSE UNCHANGED <<pc, error>>
              ELSE IF elem = 0
              THEN Fail("TypeError") /\ SetWorld(r.w)
              ELSE SetWorld(r.w) /\ UNCHANGED <<pc, error>>
    /\ UNCHANGED <<callVars, caller, cleared, dir, first, hasUnchangedChildren,
                   calls1>>

\* the second pass returns and with it the conversion; a decode displays
\* the warnings of the default factory first
Return ==
    /\ pc = "pass2"
    /\ notFullyChanged = <<>>
    /\ pc' = "done"
    /\ SetWorld(IF dir = "decode"
                THEN display_any_warnings(TheWorld, DefaultFactory)
                ELSE TheWorld)
    /\ UNCHANGED <<callVars, caller, cleared, dir, error, first,
                   hasUnchangedChildren, notFullyChanged, calls1, calls2>>

Next == Call \/ FirstPass \/ StartSecondPass \/ SecondPass \/ Return

Spec == Init /\ [][Next]_vars

\* Call or FirstPass can be taken: the guards of the two actions
FirstPassEnabled ==
    pc = "idle" \/ (pc = "pass1" /\ hasUnchangedChildren # <<>>)

\* the trees whose conversion is followed to its end: nodes, rich content
\* and elements that the second pass drops
MaxDeepNodes == 4
DeepTags == { "node", "richcontent", "prune" }

InitDeep ==
    Converting(
        TreesUpTo(EtRoots, { k \in EtKinds : k.tag \in DeepTags }, MaxDeepNodes),
        TreesUpTo(MmRoots, { k \in MmKinds : k.tag \in DeepTags }, MaxDeepNodes))

\* the conversion is one thread of control: a step that can be taken is
\* taken. The last conjunct is WF_vars(Call \/ FirstPass) with its ENABLED
\* written as FirstPassEnabled.
FairSpec ==
    /\ InitDeep
    /\ [][Next]_vars
    /\ WF_vars(StartSecondPass)
    /\ WF_vars(SecondPass)
    /\ WF_vars(Return)
    /\ ([]<>(~FirstPassEnabled) \/ []<><<Call \/ FirstPass>>_vars)

(***************************************************************************)
(* The conversion of a tree that holds an element out of the ordinary: an  *)
(* attribute on an element without a factory, an attribute that is against *)
(* the spec of its class, an etree element among pymm elements.            *)
(***************************************************************************)
MaxOddNodes == 3

OddEtKinds ==
    { EtElement("node", << Pair("TEXT", Str("hello")) >>, <<>>, None, None),
      EtElement("node", << Pair("TEXT", Str("hello")),
                           Pair("CREATED", Str("abc")) >>, <<>>, None, None),
      EtElement("customplugin", << Pair("id", Str("7")) >>, <<>>, None, None) }

OddMmKinds ==
    { MmElement("Node", << Pair("TEXT", Str("hello")) >>, <<>>),
      MmElement("Node", << Pair("TEXT", Str("hello")),
                           Pair("CREATED", Str("abc")) >>, <<>>),
      EtElement("node", << Pair("TEXT", Str("hello")) >>, <<>>, None, None) }

InitOdd ==
    Converting(TreesUpTo(EtRoots, OddEtKinds, MaxOddNodes),
               TreesUpTo(MmRoots, OddMmKinds, MaxOddNodes))

SpecOdd == InitOdd /\ [][Next]_vars

(***************************************************************************)
(* The round trip: a pymm tree of registered classes, with attributes of   *)
(* their spec, is encoded, and what the encode returned is decoded by the  *)
(* same converter. input keeps the tree the round trip began with.         *)
(***************************************************************************)
MaxRoundNodes == 3

RoundKinds ==
    { MmElement("Node", << Pair("TEXT", Str("hello")), Pair("FOLDED", PyFalse),
                           Pair("CREATED", IntV(7)) >>, <<>>),
      MmElement("Node", << Pair("TEXT", Markup(<< Bold >>)) >>, <<>>),
      [MmElement("NodeNote", << Pair("TYPE", Str("NOTE")) >>, <<>>)
          EXCEPT !.html = Markup(<< Bold >>)],
      MmElement("Edge", <<>>, <<>>) }

InitRoundTrip ==
    /\ Converting({}, TreesUpTo(MmRoots, RoundKinds, MaxRoundNodes))
    /\ dir = "encode"

\* convert.decode_etree_element_and_tree(convert.encode_mm_element_and_tree(t))
\* reaches its second call
Redecode ==
    /\ pc = "done"
    /\ dir = "encode"
    /\ op = "none"
    /\ op' = "redecode"
    /\ input' = caller
    /\ caller' = [heap |-> heap, root |-> first]
    /\ dir' = "decode"
    /\ pc' = "idle"
    /\ first' = 0
    /\ calls1' = <<>>
    /\ calls2' = <<>>
    /\ UNCHANGED <<outcome, heap, cleared, error, hasUnchangedChildren,
                   notFullyChanged, warnings, noFactoryWarnings>>

NextRoundTrip ==
    Call \/ FirstPass \/ StartSecondPass \/ SecondPass \/ Return \/ Redecode

SpecRoundTrip == InitRoundTrip /\ [][NextRoundTrip]_vars

(***************************************************************************)
(* The decode of a node with rich content: the node on top, below it rich  *)
(* content of the node text and of the note variant, edges and markup.     *)
(***************************************************************************)
MaxTextNodes == 4

TextRoots == { EtElement("node", << Pair("TEXT", Str("hello")) >>, <<>>, None, None) }
TextKinds ==
    { EtElement("richcontent", << Pair("TYPE", Str("NODE")) >>, <<>>, None, None),
      EtElement("richcontent", << Pair("TYPE", Str("NOTE")) >>, <<>>, None, None),
      EtElement("edge", <<>>, <<>>, None, None),
      EtElement("b", <<>>, <<>>, Str("bold"), None) }

InitNodeText ==
    Converting(TreesUpTo(TextRoots, TextKinds, MaxTextNodes), {})

SpecNodeText == InitNodeText /\ [][Next]_vars

(***************************************************************************)
(* The encode of a tree with maps: a map on top, below it maps, nodes,     *)
(* edges and elements that the first pass drops.                           *)
(***************************************************************************)
MaxMapNodes == 4

MapKinds ==
    { MmElement("Map", <<>>, <<>>),
      MmElement("Node", << Pair("TEXT", Str("hello")) >>, <<>>),
      MmElement("Edge", <<>>, <<>>),
      MmElement("Skip", <<>>, <<>>) }

InitMap ==
    /\ Converting({}, TreesUpTo(MmRoots, MapKinds, MaxMapNodes))
    /\ dir = "encode"

SpecMap == InitMap /\ [][Next]_vars

\* convert.encode_mm_element_and_tree(convert.decode_etree_element_and_tree(t))
\* reaches its second call
Reencode ==
    /\ pc = "done"
    /\ dir = "decode"
    /\ op = "none"
    /\ op' = "reencode"
    /\ input' = caller
    /\ caller' = [heap |-> heap, root |-> first]
    /\ dir' = "encode"
    /\ pc' = "idle"
    /\ first' = 0
    /\ calls1' = <<>>
    /\ calls2' = <<>>
    /\ UNCHANGED <<outcome, heap, cleared, error, hasUnchangedChildren,
                   notFullyChanged, warnings, noFactoryWarnings>>

NextReencode ==
    Call \/ FirstPass \/ StartSecondPass \/ SecondPass \/ Return \/ Reencode

\* a tree with rich content is decoded and what comes back is encoded
SpecReencode == InitNodeText /\ [][NextReencode]_vars

(***************************************************************************)
(* The attribute coercion of one element: its class's spec and its attrib. *)
(***************************************************************************)
MaxRules == 2

Rules ==
    { TypeTag("bool"), TypeTag("int"), TypeTag("float"), TypeTag("str"),
      ExactString("abc"), ExactString("true"),
      CustomFn("reject"), CustomFn("strip") }

RECURSIVE SeqsUpTo(_, _)
SeqsUpTo(S, n) ==
    IF n = 0 THEN { <<>> }
    ELSE LET shorter == SeqsUpTo(S, n - 1)
         IN  shorter \cup { Append(q, x) : q \in shorter, x \in S }

EntriesPool == { EntryList(items) : items \in SeqsUpTo(Rules, MaxRules) }
                   \cup { NonList }

\* attribute "A" is the one whose spec entries vary; "B" is in the spec of
\* some classes only; "C" is in no spec
SpecPool ==
    { <<>> } \cup { "A" :> e : e \in EntriesPool }
             \cup { ("A" :> e) @@ ("B" :> EntryList(<< TypeTag("str") >>)) :
                        e \in { EntryList(<< TypeTag("bool") >>),
                                EntryList(<< TypeTag("int") >>) } }
             \cup { "B" :> EntryList(<< TypeTag("str") >>) }

\* the text of an attribute of an etree element
RawValues ==
    { Str(""), Str("false"), Str("False"), Str("FALSE"), Str("true"),
      Str("abc"), Str("7"), Str(" 7"), Str("1.5") }
\* the value of an attribute of a pymm element
TypedValues ==
    RawValues \cup { PyTrue, PyFalse, IntV(7), IntV(0), Float(15), None,
                     Bytes("false") }
OtherValues == { Str("abc"), None }

AttribPool ==
    { <<>> } \cup { << Pair("A", v) >> : v \in TypedValues }
             \cup { << Pair("C", w) >> : w \in OtherValues }
             \cup { << Pair("A", v), Pair("C", w) >> :
                        v \in TypedValues, w \in OtherValues }
             \cup { << Pair("C", w), Pair("A", v) >> :
                        v \in TypedValues, w \in OtherValues }

AllStr(attrib) == \A i \in 1..Len(attrib) : attrib[i].v.t = "str"

InitCoerce ==
    /\ op = "none"
    /\ input \in [spec : SpecPool, tag : {"node"}, attrib : AttribPool]
    /\ outcome = NoOutcome
    /\ NoTree

\* factory.decode_attribs(elemClass, etElement.attrib): the attrib of an etree
\* element holds texts only
DecodeAttribs ==
    /\ op = "none"
    /\ AllStr(input.attrib)
    /\ op' = "decode_attribs"
    /\ outcome' = decode_attribs(input.spec, input.tag, input.attrib)
    /\ UNCHANGED <<input, treeVars>>

\* factory.encode_attribs(mmElement)
EncodeAttribs ==
    /\ op = "none"
    /\ op' = "encode_attribs"
    /\ outcome' = encode_attribs(input.spec, input.attrib)
    /\ UNCHANGED <<input, treeVars>>

NextCoerce == DecodeAttribs \/ EncodeAttribs

SpecCoerce == InitCoerce /\ [][NextCoerce]_vars

(***************************************************************************)
(* The choice of the element class of one etree element.                   *)
(***************************************************************************)
MaxVariants == 2

Matchers ==
    { <<>> } \cup { << Pair("NAME", Regex(r)) >> : r \in {"MapStyle", "ExternalObject"} }
             \cup { << Pair("TYPE", Regex("NODE")) >> }
             \cup { << Pair("NAME", Regex("MapStyle")), Pair("TYPE", Regex("NODE")) >> }

\* the i-th variant listed names the class <<"variant", i>>
VariantLists ==
    { [i \in 1..Len(ms) |-> Variant(<<"variant", i>>, ms[i])] :
          ms \in SeqsUpTo(Matchers, MaxVariants) }

EtAttribPool ==
    { <<>> }
      \cup { << Pair("NAME", Str(v)) >> :
                 v \in {"MapStyle", "MapStyleX", "ExternalObject", ""} }
      \cup { << Pair("TYPE", Str(v)) >> : v \in {"NODE", "NOD"} }
      \cup { << Pair("NAME", Str(v)), Pair("TYPE", Str(w)) >> :
                 v \in {"MapStyle", "MapStyleX"}, w \in {"NODE", "NOD"} }

InitResolve ==
    /\ op = "none"
    /\ input \in [variants : VariantLists, tag : {"hook"},
                  attrib : EtAttribPool]
    /\ outcome = NoOutcome
    /\ NoTree

\* factory.compute_element_type(etElement)
ComputeElementType ==
    /\ op = "none"
    /\ op' = "compute_element_type"
    /\ outcome' = compute_element_type(<<"base">>, input.variants,
                                       input.tag, input.attrib)
    /\ UNCHANGED <<input, treeVars>>

NextResolve == ComputeElementType

SpecResolve == InitResolve /\ [][NextResolve]_vars

(***************************************************************************)
(* The registry of a converter. input is [tag2factory, added]: the         *)
(* dictionary of the converter and the factories handed to add_factory     *)
(* since __init__, in order. outcome is [tag, factory]: the last lookup.   *)
(***************************************************************************)
MaxAdded == 3

\* factories a user adds: two of them stand for a tag that __init__ has
\* already given a factory, one is added again under its own tag
AddedFactories ==
    { "UserNodeFactory", "UserHookFactory", "NodeFactory", "SkipFactory" }

\* the tags looked up: "" stands for an element with no tag
LookupTags == { "node", "hook", "skip", "map", "customplugin", "", CommentTag }

\* MindMapConverter.__init__
InitRegistry ==
    /\ op = "__init__"
    /\ input = [tag2factory |-> add_factories(<<>>, FactoryClasses, 1),
                added |-> <<>>]
    /\ outcome = [tag |-> "", factory |-> DefaultFactory]
    /\ NoTree

\* converter.add_factory(factory)
AddFactory ==
    /\ Len(input.added) < MaxAdded
    /\ \E factory \in AddedFactories :
          input' = [tag2factory |-> add_factory(input.tag2factory, factory),
                    added |-> Append(input.added, factory)]
    /\ op' = "add_factory"
    /\ UNCHANGED <<outcome, treeVars>>

\* converter.get_decode_factory_for(element)
GetDecodeFactoryFor ==
    /\ \E tag \in LookupTags :
          outcome' = [tag |-> tag,
                      factory |-> get_factory_for(input.tag2factory, tag)]
    /\ op' = "get_decode_factory_for"
    /\ UNCHANGED <<input, treeVars>>

NextRegistry == AddFactory \/ GetDecodeFactoryFor

SpecRegistry == InitRegistry /\ [][NextRegistry]_vars

(***************************************************************************)
(* Properties of the conversion of a tree. The caller's elements are       *)
(* 1..NSource; deepcopy puts the copy of element i at NSource + i.         *)
(***************************************************************************)
Range(seq)   == { seq[i] : i \in 1..Len(seq) }
NSource      == Len(caller.heap)
IsCopy(id)   == id \in (NSource + 1)..(2 * NSource)
SourceOf(id) == id - NSource
\* the elements below an element of a tree
Below(h, id) == Range(TreeIds(h, h[id].children, <<>>))
\* e comes before f in the list
Precedes(seq, e, f) ==
    \E i, j \in 1..Len(seq) : i < j /\ seq[i] = e /\ seq[j] = f
\* the caller's elements a and b are children of one parent, a before b
SiblingsInSource(a, b) ==
    \E q \in 1..NSource : Precedes(caller.heap[q].children, a, b)

\* the applications of the second-pass function that returned None for an
\* element with a parent, and those of the first-pass function
Pruned ==
    { i \in 1..Len(calls2) :
         calls2[i].out = 0 /\ calls2[i].err = "" /\ calls2[i].parent # 0 }
Dropped ==
    { i \in 1..Len(calls1) :
         calls1[i].out = 0 /\ calls1[i].err = "" /\ calls1[i].parent # 0 }

\* the children the first pass built for p, in the order it built them
Pass1Children(p) ==
    LET made == SelectSeq(calls1, LAMBDA c : c.parent = p /\ c.out # 0)
    IN  [i \in 1..Len(made) |-> made[i].out]
\* the first pass left the loop over the children of p with an exception
FailedUnder(p) ==
    \E j \in 1..Len(calls1) : calls1[j].parent = p /\ calls1[j].err # ""
\* the second-pass function has been applied to the element
Finished(e) == \E j \in 1..Len(calls2) : calls2[j].node = e

\* C1: when the second-pass function returns None for an element n with a
\* parent, the step that applied it raises nothing, n is no longer among the
\* children of its parent, and n is not in the tree the conversion returns.
C1_PrunedNodeDetached ==
    \A i \in Pruned :
        LET n == calls2[i].node
            p == calls2[i].parent
        IN  /\ i = Len(calls2) => pc # "failed"
            /\ n \notin Range(heap[p].children)
            /\ pc = "done" => n \notin Range(TreeIds(heap, << first >>, <<>>))

\* C2: once the conversion has ended, for every element n the second-pass
\* function returned None for: each sibling of n that the first pass built
\* is still a child of the parent (unless it was pruned itself, or is the
\* node text its parent took in), the siblings stand in the order the first
\* pass gave them, each has had the second-pass function applied, and no
\* element below n has.
C2_PruningIsolation ==
    pc \in {"done", "failed"} =>
        \A i \in Pruned :
            LET n    == calls2[i].node
                p    == calls2[i].parent
                sibs == Range(Pass1Children(p)) \ {n}
                kept == sibs \cap Range(heap[p].children)
            IN  /\ \A s \in sibs :
                      \/ s \in kept
                      \/ \E j \in Pruned : calls2[j].node = s
                      \/ heap[s].cls = "NodeText"
                /\ SelectSeq(heap[p].children, LAMBDA c : c \in kept)
                      = SelectSeq(Pass1Children(p), LAMBDA c : c \in kept)
                /\ \A s \in kept : Finished(s)
                /\ \A e \in Below(heap, n) : ~Finished(e)

\* C3: when the first-pass function returns None for a child n, it is
\* applied to no element below n; and unless the loop over the children of
\* the parent was left with an exception, n is not among the rebuilt
\* children of the parent and the function has been applied to every other
\* child the parent had in the source, whose image is among the rebuilt
\* children (until the second pass begins to change them).
C3_DroppedInPassOne ==
    \A i \in Dropped :
        LET n == calls1[i].node
            p == calls1[i].parent
        IN  /\ IsCopy(n)
            /\ \A j \in 1..Len(calls1) :
                   IsCopy(calls1[j].node) =>
                       SourceOf(calls1[j].node)
                           \notin Below(caller.heap, SourceOf(n))
            /\ ~FailedUnder(p) =>
                  /\ n \notin Range(heap[p].children)
                  /\ \A s \in 1..NSource :
                        (SiblingsInSource(s, SourceOf(n))
                            \/ SiblingsInSource(SourceOf(n), s)) =>
                        \E j \in 1..Len(calls1) :
                            /\ calls1[j].node = s + NSource
                            /\ calls1[j].parent = p
                            /\ (calls1[j].out # 0 /\ calls2 = <<>>) =>
                                  calls1[j].out \in Range(heap[p].children)

\* the conversion has returned; a child that had a child of its own was
\* dropped by the first pass, and a sibling of it was transformed
C3_Witness ==
    /\ pc = "done"
    /\ \E i \in Dropped :
          /\ caller.heap[SourceOf(calls1[i].node)].children # <<>>
          /\ \E j \in 1..Len(calls1) :
                /\ calls1[j].parent = calls1[i].parent
                /\ calls1[j].out # 0
                /\ calls1[j].out \in Range(heap[calls1[i].parent].children)

\* C4: in a decode, and in an encode with the order lists of the factories
\* empty: when two children a, b of one parent in the source, a before b,
\* both have an image from the first pass, and both images are children of
\* the rebuilt parent, the image of a comes before the image of b; and when
\* the first pass has returned, the children of every rebuilt parent are
\* the images in the order they were made.
C4_OrderPreserved ==
    (dir = "decode" \/ cleared) =>
        /\ \A i, j \in 1..Len(calls1) :
              LET a == calls1[i]
                  b == calls1[j]
              IN  ( /\ a.parent = b.parent /\ a.parent # 0
                    /\ a.out # 0 /\ b.out # 0
                    /\ IsCopy(a.node) /\ IsCopy(b.node)
                    /\ SiblingsInSource(SourceOf(a.node), SourceOf(b.node))
                    /\ a.out \in Range(heap[a.parent].children)
                    /\ b.out \in Range(heap[a.parent].children) )
                  => Precedes(heap[a.parent].children, a.out, b.out)
        /\ (pc = "pass2" /\ calls2 = <<>>) =>
              \A i \in 1..Len(calls1) :
                  calls1[i].out # 0 =>
                      heap[calls1[i].out].children
                          = Pass1Children(calls1[i].out)

\* an encode with empty order lists has returned: a node came before an
\* element the order lists would put first, a dropped child stood between
\* them, and the images stand as the source had them
C4_Witness ==
    /\ pc = "done"
    /\ dir = "encode"
    /\ cleared
    /\ \E i, j, k \in 1..Len(calls1) :
          /\ i < k /\ k < j
          /\ calls1[i].parent = calls1[j].parent
          /\ calls1[k].parent = calls1[i].parent
          /\ calls1[i].parent # 0
          /\ heap[calls1[i].node].cls = "Node"
          /\ heap[calls1[j].node].tag = "customplugin"
          /\ k \in Dropped
          /\ calls1[i].out # 0 /\ calls1[j].out # 0
          /\ Precedes(heap[calls1[i].parent].children,
                      calls1[i].out, calls1[j].out)

\* C5: the elements the caller handed over are as they were, at every
\* point of the conversion and after it has returned or failed.
C5_InputIsolation ==
    \A i \in 1..Len(caller.heap) : heap[i] = caller.heap[i]

\* an encode has returned whose copy of the tree had its children put in
\* another order and a node text appended to a node
C5_Witness ==
    /\ pc = "done"
    /\ dir = "encode"
    /\ \E i \in 1..NSource :
          LET src  == caller.heap[i].children
              copy == heap[i + NSource].children
          IN  \E a, b \in Range(src) :
                 /\ Precedes(src, a, b)
                 /\ Precedes(copy, b + NSource, a + NSource)
    /\ \E i \in 1..NSource :
          Len(heap[i + NSource].children) > Len(caller.heap[i].children)

\* no factory is registered for the tag
Unregistered(tag) == get_decode_factory_for(tag) = DefaultFactory
\* the warnings display_any_warnings has issued
Reports ==
    { i \in 1..Len(warnings) : warnings[i].what = "do not have decode factories" }
\* the applications of the first-pass function of a decode to an element
\* whose tag is not registered
DecodedUnregistered ==
    { i \in 1..Len(calls1) :
         dir = "decode" /\ Unregistered(heap[calls1[i].node].tag) }

\* C12: in a decode, an element whose tag is not registered is decoded and
\* finished without an exception, its image is a pymm element with the tag
\* of the source; and when the decode has returned, one warning names the
\* tags without a factory and the tag is among them.
C12_UnregisteredTagDecoded ==
    /\ \A i \in DecodedUnregistered :
          /\ calls1[i].err = ""
          /\ calls1[i].out # 0
          /\ heap[calls1[i].out].form = "mm"
          /\ heap[calls1[i].out].tag = heap[calls1[i].node].tag
          /\ \A j \in 1..Len(calls2) :
                calls2[j].node = calls1[i].out =>
                    calls2[j].err = "" /\ calls2[j].out = calls1[i].out
          /\ pc = "done" =>
                /\ Cardinality(Reports) = 1
                /\ \A r \in Reports :
                      heap[calls1[i].node].tag \in warnings[r].tags
    /\ DecodedUnregistered = {} => Reports = {}

\* C13: whenever a conversion has returned or failed, the set of tags
\* without a factory of every factory is empty.
C13_AccumulatorDrained ==
    pc \in {"done", "failed"} =>
        \A ff \in FactoryNames : noFactoryWarnings[ff] = {}

\* markup without the tails (the whitespace after an element)
RECURSIVE StripTails(_)
StripTails(ser) ==
    [ser EXCEPT !.tail = None,
                !.kids = [i \in 1..Len(ser.kids) |-> StripTails(ser.kids[i])]]
NoSpace(v) ==
    IF v.t = "str" THEN [v EXCEPT !.x = [i \in 1..Len(v.x) |-> StripTails(v.x[i])]]
    ELSE v
\* how often each member stands in the list
BagOf(seq) ==
    [x \in Range(seq) |-> Cardinality({ i \in 1..Len(seq) : seq[i] = x })]

\* a pymm tree as a round trip has to give it back: class, tag, the
\* attributes whatever their order, the html, and the children without the
\* comments; the children in their order, or only how often each stands
RECURSIVE Canon(_, _, _)
Canon(h, id, ordered) ==
    LET kids == SelectSeq(h[id].children, LAMBDA c : h[c].tag # CommentTag)
        cs   == [i \in 1..Len(kids) |-> Canon(h, kids[i], ordered)]
    IN  [cls    |-> h[id].cls,
         tag    |-> h[id].tag,
         attrib |-> { << h[id].attrib[i].k, NoSpace(h[id].attrib[i].v) >> :
                         i \in 1..Len(h[id].attrib) },
         html   |-> NoSpace(h[id].html),
         kids   |-> IF ordered THEN cs ELSE BagOf(cs)]

RoundTripDone == op = "redecode" /\ pc = "done"

LeafRichContent ==
    \A i \in 1..Len(input.heap) :
        IsRichContent(input.heap[i].cls) => input.heap[i].children = <<>>

OneMalformed ==
    /\ \A i \in 1..NSource :
          /\ caller.heap[i].tag \in {"map", "node"}
          /\ caller.heap[i].form = (IF dir = "decode" THEN "et" ELSE "mm")
    /\ \E i \in 1..NSource :
          /\ Has(caller.heap[i].attrib, "CREATED")
          /\ PyInt(Get(caller.heap[i].attrib, "CREATED")).err = "ValueError"

\* C15: a conversion of such a tree does not fail; when it has returned,
\* every element of the tree has been given an image by the first pass, the
\* images are finished, and the attribute has been warned about.
C15_MalformedNodeRecovered ==
    OneMalformed =>
        /\ pc # "failed"
        /\ pc = "done" =>
              /\ \A n \in (NSource + 1)..(2 * NSource) :
                    \E i \in 1..Len(calls1) :
                        /\ calls1[i].node = n
                        /\ calls1[i].out # 0
                        /\ Finished(calls1[i].out)
              /\ \E w \in 1..Len(warnings) : warnings[w].key = "CREATED"

\* C17: in an encode, the first-pass call on an element that is an etree
\* element already raises nothing, returns an element and has warned.
C17_GenericNodeEncoded ==
    dir = "encode" =>
        \A i \in 1..Len(calls1) :
            heap[calls1[i].node].form = "et" =>
                /\ calls1[i].err = ""
                /\ calls1[i].out # 0
                /\ \E w \in 1..Len(warnings) :
                      warnings[w].cat = "RuntimeWarning"

\* no element of the tree handed over has a hook that returns None
NoneDropped ==
    \A i \in 1..NSource : caller.heap[i].tag \notin {"skip", "prune"}

\* the queues of the two passes are empty
QueuesEmpty == hasUnchangedChildren = <<>> /\ notFullyChanged = <<>>

Pass1Made == { calls1[i].out : i \in 1..Len(calls1) } \ {0}

\* the form the conversion gives an element
TargetForm == IF dir = "decode" THEN "mm" ELSE "et"

\* C19: the second-pass function is applied to no element before the first
\* pass has emptied its queue; when the second pass starts, every element of
\* the tree has been returned by the first-pass function and has the form of
\* the target; the second-pass function is applied to an element after it has
\* been applied to the element's parent.
C19_PassOrdering ==
    /\ calls2 # <<>> => (pc \in {"pass2", "done", "failed"}
                            /\ hasUnchangedChildren = <<>>)
    /\ (pc = "pass2" /\ calls2 = <<>>) =>
          \A e \in {first} \cup Below(heap, first) :
              e \in Pass1Made /\ heap[e].form = TargetForm
    /\ \A j \in 1..Len(calls2) :
          calls2[j].parent # 0 =>
              \E i \in 1..(j - 1) : calls2[i].node = calls2[j].parent
    /\ \A i, j \in 1..Len(calls2) :
          (calls2[i].node # 0 /\ calls2[j].node \in Range(heap[calls2[i].node].children))
              => i < j

\* the second pass has been through a tree of three levels
C19_Witness ==
    /\ pc = "done"
    /\ \E i, j, k \in 1..Len(calls2) :
          /\ calls2[i].parent = 0
          /\ calls2[j].parent = calls2[i].node
          /\ calls2[k].parent = calls2[j].node
          /\ calls2[k].node \in Pass1Made

\* the children of the element that are node texts, of those the first pass
\* gave it
NodeTexts(n) ==
    SelectSeq(Pass1Children(n), LAMBDA c : heap[c].cls = "NodeText")

\* C21: once the second-pass function has been applied to a node to which
\* the first pass gave one or more node texts, the TEXT of the node is the
\* html of one of them, its children are the others of the first pass in
\* their order, and the second-pass function is applied to no node text.
C21_NodeTextHoisted ==
    dir = "decode" =>
        \A j \in 1..Len(calls2) :
            LET n == calls2[j].node IN
            (heap[n].cls = "Node" /\ NodeTexts(n) # <<>>) =>
                /\ calls2[j].err = ""
                /\ Has(heap[n].attrib, "TEXT")
                /\ \E c \in Range(NodeTexts(n)) :
                      Get(heap[n].attrib, "TEXT") = heap[c].html
                /\ heap[n].children =
                      SelectSeq(Pass1Children(n),
                                LAMBDA c : heap[c].cls # "NodeText")
                /\ \A c \in Range(NodeTexts(n)) : ~Finished(c)

\* a decode has returned a node that had two node texts and a note between
\* them
C21_Witness ==
    /\ pc = "done"
    /\ dir = "decode"
    /\ Len(NodeTexts(first)) = 2
    /\ Len(heap[first].children) = 1
    /\ heap[heap[first].children[1]].cls = "NodeNote"
    /\ Finished(heap[first].children[1])
    /\ Pass1Children(first)[2] = heap[first].children[1]
    /\ Get(heap[first].attrib, "TEXT") # Str("hello")

\* serialized elements without what follows them
NoTails(sers) == [i \in 1..Len(sers) |-> [sers[i] EXCEPT !.tail = None]]

\* C22: the first-pass decode of a rich content with k children gives an
\* element without children whose html is the k children serialized; in the
\* encode of what the decode returned no call raises, and the second-pass
\* function leaves a rich content with a text of whitespace and the k
\* elements of the html as its children.
C22_RichContentAnyChildren ==
    /\ dir = "decode" =>
          \A i \in 1..Len(calls1) :
              LET et == calls1[i].node
                  mm == calls1[i].out
              IN  (heap[et].tag = "richcontent" /\ mm # 0) =>
                      /\ heap[mm].children = <<>>
                      /\ heap[mm].html =
                            Markup([k \in 1..Len(heap[et].children) |->
                                      tostring(heap, heap[et].children[k])])
    /\ op = "reencode" =>
          /\ pc # "failed"
          /\ \A i \in 1..Len(calls1), j \in 1..Len(calls2) :
                (/\ heap[calls1[i].node].tag = "richcontent"
                 /\ calls1[i].out = calls2[j].node) =>
                    LET mm == heap[calls1[i].node]
                        et == heap[calls2[j].node]
                    IN  /\ calls2[j].err = ""
                        /\ et.text = Str("\n")
                        /\ NoTails([k \in 1..Len(et.children) |->
                                      tostring(heap, et.children[k])])
                              = NoTails(mm.html.x)

\* the children of the element that are comments
Comments(e) ==
    SelectSeq(heap[e].children, LAMBDA c : heap[c].tag = CommentTag)

\* C23: in an encode, once the second-pass function has been applied to a
\* map, the first child of the map is the comment, the map has no other
\* comment, and after the comment come the children the first pass gave the
\* map, in their order.
C23_MapCommentFirst ==
    dir = "encode" =>
        \A j \in 1..Len(calls2) :
            LET m == calls2[j].node IN
            heap[m].tag = "map" =>
                /\ calls2[j].err = ""
                /\ heap[m].children # <<>>
                /\ heap[heap[m].children[1]].tag = CommentTag
                /\ heap[heap[m].children[1]].text = Str("To view this file")
                /\ Len(Comments(m)) = 1
                /\ Tail(heap[m].children) = Pass1Children(m)

\* an encode has returned a tree with a map on top and a map below it, the
\* lower one with a node after an edge
C23_Witness ==
    /\ pc = "done"
    /\ dir = "encode"
    /\ \E i, j \in 1..Len(calls2) :
          /\ calls2[i].parent = 0
          /\ calls2[j].parent = calls2[i].node
          /\ heap[calls2[j].node].tag = "map"
          /\ Len(heap[calls2[j].node].children) = 3
          /\ heap[heap[calls2[j].node].children[2]].tag = "edge"
          /\ heap[heap[calls2[j].node].children[3]].tag = "node"
          /\ Len(heap[calls2[i].node].children) = 2

\* the number of applications of a pass to the element
Times(log, n) == Cardinality({ i \in 1..Len(log) : log[i].node = n })
\* the caller's element s is below an element for which the first-pass
\* function returned None
BelowDropped(s) ==
    \E i \in 1..Len(calls1) :
        /\ calls1[i].out = 0 /\ calls1[i].err = ""
        /\ IsCopy(calls1[i].node)
        /\ s \in Below(caller.heap, SourceOf(calls1[i].node))
\* the element e is below an element for which the second-pass function
\* returned None
BelowPruned(e) ==
    \E i \in 1..Len(calls2) :
        /\ calls2[i].out = 0 /\ calls2[i].err = ""
        /\ e \in Below(heap, calls2[i].node)

\* C26: no pass is applied twice to an element; when a conversion is over,
\* the first-pass function has been applied exactly once to every element of
\* the source that is not below a dropped one, and the second-pass function
\* exactly once to every element of the tree that is not below a pruned one.
C26_ExactlyOnce ==
    /\ \A n \in 1..Len(heap) : Times(calls1, n) <= 1 /\ Times(calls2, n) <= 1
    /\ pc \in {"done", "failed"} =>
          /\ \A s \in 1..NSource :
                ~BelowDropped(s) => Times(calls1, s + NSource) = 1
          /\ \A e \in {first} \cup Below(heap, first) :
                ~BelowPruned(e) => Times(calls2, e) = 1

(***************************************************************************)
(* Properties of compute_element_type                                      *)
(***************************************************************************)
\* a variant qualifies when every name of its matcher is an attribute of the
\* element whose whole text is the pattern's
Qualifies(variant, attrib) ==
    \A j \in 1..Len(variant.attribs) :
        \E i \in 1..Len(attrib) :
            /\ attrib[i].k = variant.attribs[j].k
            /\ attrib[i].v = Str(variant.attribs[j].v.lit)

Qualifying(variants, attrib) ==
    { i \in 1..Len(variants) : Qualifies(variants[i], attrib) }

Max(S) == CHOOSE x \in S : \A y \in S : y <= x

\* C6: compute_element_type returns the last-listed variant among those that
\* qualify (every name of its matcher present, its whole text matching), the
\* factory's own element when none qualifies, and warns of an ambiguity
\* exactly once when two or more qualify and not at all otherwise.
C6_LastQualifyingVariant ==
    op = "compute_element_type" =>
        LET q == Qualifying(input.variants, input.attrib) IN
        /\ outcome.err = ""
        /\ outcome.val = IF q = {} THEN <<"base">>
                         ELSE input.variants[Max(q)].type
        /\ Len(outcome.warns) = IF Cardinality(q) >= 2 THEN 1 ELSE 0
        /\ \A i \in 1..Len(outcome.warns) :
               outcome.warns[i].what = "2+ possible elements"

\* two variants qualify, an earlier and a later one, and a third does not
\* for want of a whole match
C6_Witness ==
    /\ op = "compute_element_type"
    /\ Qualifying(input.variants, input.attrib) = {1, 2}
    /\ input.variants[1].attribs # input.variants[2].attribs
    /\ outcome.val = <<"variant", 2>>
    /\ Len(outcome.warns) = 1

(***************************************************************************)
(* Properties of the attribute coercion                                    *)
(***************************************************************************)
\* the entries of attribute "A" in the spec under test
EntriesOfA == input.spec["A"].items
HasListA ==
    /\ "A" \in DOMAIN input.spec
    /\ input.spec["A"].list
    /\ Has(input.attrib, "A")

\* the entry that decides the value: the first one that is no literal, or
\* is a literal equal to the value (0 when there is none)
Deciding(items, value) ==
    LET hits == { i \in 1..Len(items) :
                     items[i].k # "lit" \/ Str(items[i].s) = value }
    IN  IF hits = {} THEN 0 ELSE CHOOSE i \in hits : \A j \in hits : i <= j

\* C7: in both directions the result of the coercion has exactly the
\* attribute keys of the input.
C7_NoAttributeDropped ==
    (op \in {"decode_attribs", "encode_attribs"} /\ outcome.err = "") =>
        Keys(outcome.val) = Keys(input.attrib)

\* C8: a text decoded against a bool entry gives False for "false", "False"
\* and "FALSE", and True for every other text that is not empty.
C8_BoolDecode ==
    (op = "decode_attribs" /\ HasListA) =>
        LET value == Get(input.attrib, "A")
            d     == Deciding(EntriesOfA, value)
        IN  (d > 0 /\ EntriesOfA[d] = TypeTag("bool")) =>
               /\ outcome.err = ""
               /\ Has(outcome.val, "A")
               /\ value.s \in {"false", "False", "FALSE"}
                     => Get(outcome.val, "A") = PyFalse
               /\ (value.s \notin {"false", "False", "FALSE"} /\ value.s # "")
                     => Get(outcome.val, "A") = PyTrue

C8_Witness ==
    /\ op = "decode_attribs"
    /\ HasListA
    /\ EntriesOfA = << TypeTag("bool") >>
    /\ Get(input.attrib, "A") = Str("FALSE")
    /\ outcome.err = ""
    /\ Get(outcome.val, "A") = PyFalse

\* C9: a bool attribute is encoded as the lower-case text "true" or "false".
C9_BoolEncodedLowerCase ==
    (op = "encode_attribs" /\ HasListA) =>
        LET value == Get(input.attrib, "A")
        IN  (EntriesOfA # <<>> /\ EntriesOfA[1] = TypeTag("bool")
               /\ value \in {PyTrue, PyFalse}) =>
               /\ outcome.err = ""
               /\ Has(outcome.val, "A")
               /\ Get(outcome.val, "A") =
                      Str(IF value = PyTrue THEN "true" ELSE "false")

\* C10: when an int or float entry cannot parse the text, a later literal
\* entry equal to the text gives the result and nothing is warned about.
C10_ParseFailureConfined ==
    (op = "decode_attribs" /\ HasListA) =>
        LET value == Get(input.attrib, "A")
        IN  (/\ Len(EntriesOfA) = 2
             /\ EntriesOfA[1] \in {TypeTag("int"), TypeTag("float")}
             /\ PyConstruct(EntriesOfA[1].ty, value).err = "ValueError"
             /\ EntriesOfA[2] = ExactString(value.s)) =>
               /\ outcome.err = ""
               /\ Get(outcome.val, "A") = value
               /\ \A i \in 1..Len(outcome.warns) : outcome.warns[i].key # "A"

\* the entry raises for the value
RuleFails(entry, value) ==
    CASE entry.k = "type" ->
            /\ ~(entry.ty = "bool" /\ \E f \in false_strings : PyEq(f, value))
            /\ PyConstruct(entry.ty, value).err # ""
      [] entry.k = "fn" -> ApplyFn(entry.s, value).err # ""
      [] OTHER -> FALSE

\* the attribute of the input falls back: its key is not in a spec that is
\* not empty, or no entry of its list matches the value, or the entry that
\* decides raises (None-valued attributes of a pymm element apart)
FallsBack(key) ==
    /\ Has(input.attrib, key)
    /\ Get(input.attrib, key) # None
    /\ IF key \notin DOMAIN input.spec THEN input.spec # <<>>
       ELSE /\ input.spec[key].list
            /\ LET items == input.spec[key].items
                   d     == Deciding(items, Get(input.attrib, key))
               IN  d = 0 \/ RuleFails(items[d], Get(input.attrib, key))

\* C11: in a decode and in an encode, an attribute that falls back is kept
\* with the text of its value, exactly one warning is issued for it, and
\* nothing is raised.
C11_CoercionFallback ==
    op \in {"decode_attribs", "encode_attribs"} =>
        \A key \in {"A", "C"} :
            FallsBack(key) =>
               /\ outcome.err = ""
               /\ Has(outcome.val, key)
               /\ Get(outcome.val, key) = PyStrV(Get(input.attrib, key))
               /\ Cardinality({ i \in 1..Len(outcome.warns) :
                                   outcome.warns[i].key = key }) = 1

\* C24: decode_attribs under an empty spec raises nothing, warns of nothing
\* and returns the attributes as they came, every text unchanged.
C24_EmptySpecPassThrough ==
    (op = "decode_attribs" /\ input.spec = <<>>) =>
        /\ outcome.err = ""
        /\ outcome.warns = <<>>
        /\ outcome.val = input.attrib

(***************************************************************************)
(* The ordering of the children of one element. input is [order,           *)
(* reverse_order, heap]: the child_order and the reverse_child_order of    *)
(* the factory, as the classes listed, and a heap with the element at 1    *)
(* and its children after it. outcome is [err, heap].                      *)
(***************************************************************************)
MaxOrder == 2
MaxSortChildren == 3

\* the classes a factory lists, and those of the children
OrderClasses == { "Node", "Edge", "Cloud" }
ChildClasses == OrderClasses \cup { "Icon" }

\* an element with children of the classes
SortHeap(classes) ==
    << MmElement("Node", <<>>, [i \in 1..Len(classes) |-> i + 1]) >>
       \o [i \in 1..Len(classes) |-> MmElement(classes[i], <<>>, <<>>)]

InitSort ==
    /\ op = "none"
    /\ input \in [order : SeqsUpTo(OrderClasses, MaxOrder),
                  reverse_order : SeqsUpTo(OrderClasses, MaxOrder),
                  heap : { SortHeap(cs) :
                             cs \in SeqsUpTo(ChildClasses, MaxSortChildren) }]
    /\ outcome = NoOutcome
    /\ NoTree

\* factory.sort_element_children(element)
SortElementChildren ==
    /\ op = "none"
    /\ op' = "sort_element_children"
    /\ outcome' = sort_element_children(input.order, input.reverse_order,
                                        input.heap, 1)
    /\ UNCHANGED <<input, treeVars>>

NextSort == SortElementChildren

SpecSort == InitSort /\ [][NextSort]_vars

(***************************************************************************)
(* Properties of sort_element_children                                     *)
(***************************************************************************)
\* the place of the tag of the child in the list of classes, 0 when the list
\* does not hold it
PlaceIn(classes, h, c) ==
    IF \E i \in 1..Len(classes) : ClassTag(classes[i]) = h[c].tag
    THEN CHOOSE i \in 1..Len(classes) :
             /\ ClassTag(classes[i]) = h[c].tag
             /\ \A j \in (i + 1)..Len(classes) : ClassTag(classes[j]) # h[c].tag
    ELSE 0

\* the children of the element before and after the call
SortedFrom == input.heap[1].children
SortedTo   == outcome.heap[1].children

\* the lists of the factory hold no class twice and share no class, and
\* reverse_order is not empty
SortLists ==
    /\ input.reverse_order # <<>>
    /\ \A i, j \in 1..Len(input.order) :
          input.order[i] = input.order[j] => i = j
    /\ \A i, j \in 1..Len(input.reverse_order) :
          input.reverse_order[i] = input.reverse_order[j] => i = j
    /\ Range(input.order) \cap Range(input.reverse_order) = {}

\* C20: with a reverse_order that is not empty the call raises nothing and
\* leaves a permutation of the children in which children of one tag keep
\* their order, children of a tag listed earlier in order come before those
\* of a tag listed later, children of the tags of reverse_order come after
\* all others, and among these a tag listed earlier comes later.
C20_OrderChildren ==
    (op = "sort_element_children" /\ SortLists) =>
        /\ outcome.err = ""
        /\ BagOf(SortedTo) = BagOf(SortedFrom)
        /\ \A a, b \in Range(SortedFrom) :
              LET h  == input.heap
                  oa == PlaceIn(input.order, h, a)
                  ob == PlaceIn(input.order, h, b)
                  ra == PlaceIn(input.reverse_order, h, a)
                  rb == PlaceIn(input.reverse_order, h, b)
              IN  /\ (h[a].tag = h[b].tag /\ Precedes(SortedFrom, a, b))
                        => Precedes(SortedTo, a, b)
                  /\ (0 < oa /\ oa < ob) => Precedes(SortedTo, a, b)
                  /\ (ra = 0 /\ rb > 0) => Precedes(SortedTo, a, b)
                  /\ (0 < ra /\ ra < rb) => Precedes(SortedTo, b, a)

(***************************************************************************)
(* The construction of MindMap objects. input is [flag, args, made]: the   *)
(* class attribute MindMap._load_default_mindmap_flag, the arguments of    *)
(* the construction under way or made last, and the number of              *)
(* constructions so far. pc is "idle" when no construction is under way,   *)
(* "read" inside the read(filename) of __new__ called by the user and      *)
(* "default_read" inside the read(filename) of the __new__ that            *)
(* _load_default_mindmap calls. outcome is [err, loaded]: the exception of *)
(* the last construction and the hierarchy of the object it returned.      *)
(***************************************************************************)
MaxConstructions == 4

\* MindMap.mode, and the modes a user passes; a mode is the list of its
\* characters
ClassMode == << "r" >>
Modes == { << "r" >>, << "w" >>, << "r", "w" >>, << "x" >> }

\* the positional arguments of MindMap(...): none, a file name, a file name
\* and a mode, a third argument, and four arguments
ArgLists ==
    { <<>>, << "file" >>, << "file", << "r" >>, "extra", "extra" >> }
       \cup { << "file", m >> : m \in Modes }
       \cup { << "file", m, "extra" >> : m \in Modes }

\* c in mode
InMode(c, mode) == \E i \in 1..Len(mode) : mode[i] = c

\* what __new__ has come to: the flag it leaves, where it stands, and what
\* it raised or returned
Came(flag, at, err, loaded) ==
    [flag |-> flag, pc |-> at, err |-> err, loaded |-> loaded]

\* MindMap.__new__(cls, *args) up to a call of read(filename), a return or
\* a raise
new_until_read(flag, args) ==
    IF args = <<>>
    THEN IF flag
         THEN Came(FALSE, "default_read", "", "none")
         ELSE Came(flag, "idle", "", "bare")
    ELSE IF Len(args) > 3
    THEN Came(flag, "idle", "ValueError", "none")
    ELSE LET mode == IF Len(args) >= 2 THEN args[2] ELSE ClassMode IN
         IF InMode("r", mode) /\ InMode("w", mode)
         THEN Came(flag, "idle", "ValueError", "none")
         ELSE IF InMode("r", mode)
         THEN Came(FALSE, "read", "", "none")
         ELSE IF InMode("w", mode)
         THEN Came(FALSE, "default_read", "", "none")
         ELSE Came(flag, "idle", "ValueError", "none")

\* the variables of a conversion, which no construction touches
conversionVars == <<heap, caller, cleared, dir, error, first,
                    hasUnchangedChildren, notFullyChanged, warnings,
                    noFactoryWarnings, calls1, calls2>>

InitMindMap ==
    /\ op = "none"
    /\ input = [flag |-> TRUE, args |-> <<>>, made |-> 0]
    /\ outcome = [err |-> "", loaded |-> "none"]
    /\ NoTree

\* MindMap(*args)
New ==
    /\ pc = "idle"
    /\ input.made < MaxConstructions
    /\ \E args \in ArgLists :
       \E n \in { new_until_read(input.flag, args) } :
          /\ input' = [flag |-> n.flag, args |-> args, made |-> input.made + 1]
          /\ pc' = n.pc
          /\ outcome' = [err |-> n.err, loaded |-> n.loaded]
    /\ op' = "__new__"
    /\ UNCHANGED conversionVars

\* read(filename) in __new__ returns: the flag is set again
ReadReturns ==
    /\ pc = "read"
    /\ input' = [input EXCEPT !.flag = TRUE]
    /\ outcome' = [err |-> "", loaded |-> "file"]
    /\ pc' = "idle"
    /\ op' = "read"
    /\ UNCHANGED conversionVars

\* read(filename) in __new__ raises (no such file, no xml in the file):
\* nothing catches it on its way to the caller
ReadRaises ==
    /\ pc = "read"
    /\ \E e \in { "OSError", "ParseError" } :
          outcome' = [err |-> e, loaded |-> "none"]
    /\ pc' = "idle"
    /\ op' = "read"
    /\ UNCHANGED <<input, conversionVars>>

\* read(filename) returns in the __new__ that _load_default_mindmap called:
\* both set the flag again
DefaultReadReturns ==
    /\ pc = "default_read"
    /\ input' = [input EXCEPT !.flag = TRUE]
    /\ outcome' = [err |-> "", loaded |-> "default"]
    /\ pc' = "idle"
    /\ op' = "_load_default_mindmap"
    /\ UNCHANGED conversionVars

\* read(filename) raises in the __new__ that _load_default_mindmap called:
\* the except clause sets the flag again and raises on
DefaultReadRaises ==
    /\ pc = "default_read"
    /\ input' = [input EXCEPT !.flag = TRUE]
    /\ \E e \in { "OSError", "ParseError" } :
          outcome' = [err |-> e, loaded |-> "none"]
    /\ pc' = "idle"
    /\ op' = "_load_default_mindmap"
    /\ UNCHANGED conversionVars

NextMindMap ==
    New \/ ReadReturns \/ ReadRaises \/ DefaultReadReturns \/ DefaultReadRaises

SpecMindMap == InitMindMap /\ [][NextMindMap]_vars

(***************************************************************************)
(* Properties of the construction of MindMap objects                       *)
(***************************************************************************)
\* C25: the flag is True whenever no construction is under way, and a
\* construction without arguments that has returned has loaded the default
\* hierarchy.
C25_FlagRestored ==
    pc = "idle" =>
        /\ input.flag
        /\ (input.made > 0 /\ input.args = <<>> /\ outcome.err = "")
              => outcome.loaded = "default"

(***************************************************************************)
(* Properties of the registry                                              *)
(***************************************************************************)
\* the factories registered for the tag, in the order of their registration:
\* those of __init__, then those added
RegisteredFor(tag) ==
    SelectSeq(FactoryClasses \o input.added,
              LAMBDA f : ClassTag(FactoryElement(f)) = tag)

\* C16: a lookup gives the factory registered last for the tag, and the
\* default factory for a tag with no registration, an empty tag and the tag
\* of a comment; the dictionary holds one factory for a tag.
C16_LookupMostRecent ==
    /\ op = "get_decode_factory_for" =>
          LET regs == RegisteredFor(outcome.tag) IN
          outcome.factory = IF outcome.tag # "" /\ regs # <<>>
                            THEN regs[Len(regs)] ELSE DefaultFactory
    /\ \A tag \in DOMAIN input.tag2factory :
          /\ input.tag2factory[tag] \in Range(RegisteredFor(tag))
          /\ ClassTag(FactoryElement(input.tag2factory[tag])) = tag

\* a tag with two factories registered one after the other has been looked up
C16_Witness ==
    /\ op = "get_decode_factory_for"
    /\ Len(RegisteredFor(outcome.tag)) >= 3
    /\ outcome.factory = "UserNodeFactory"
    /\ input.added[1] = "UserNodeFactory"
    /\ input.added[2] = "NodeFactory"

====
